---- MODULE Spec2Model ----
\* A model of the rust-fatfs driver: the FAT engine (src/src/table.rs), the
\* FileSystem facade and its device adapters (src/src/fs.rs), the File stream
\* (src/src/file.rs) and the directory-entry editor (src/src/dir_entry.rs).
\*
\* The FAT region of the device is modelled byte for byte (all FAT copies, one
\* after the other, as DiskSlice addresses them), so that the FAT12 nibble
\* packing, the FAT32 28-bit mask and the mirroring of writes are computed as
\* the code computes them.  Volumes are scaled down: a handful of clusters of
\* a few bytes each.
EXTENDS Integers, Sequences, FiniteSets, TLC

VARIABLES
    gen,          \* the ShortNameGenerator of a name being created, when there is one
    dev,          \* the raw device of the formatter: prior contents and writes made to it
    bpb,          \* FileSystem.bpb when the boot sector is part of the model
    fatType,      \* FileSystem.fat_type: 12, 16 or 32
    extFlags,     \* bpb.extended_flags (bit 7: mirroring disabled, low nibble: active FAT)
    fat,          \* the bytes of the FAT region on the device, all copies
    mountFat,     \* the bytes of the FAT region when the volume was mounted
    diskStatus,   \* the on-disk BPB byte reserved_1 (offset 0x25 / 0x41)
    bpbStatus,    \* bpb.reserved_1 as parsed at mount
    curFlags,     \* FileSystem.current_status_flags, encoded
    fsInfo,       \* FileSystem.fs_info: [free, next, dirty]
    diskFsInfo,   \* the FSInfo sector on the device (see FsInfo_serialize)
    mounted,      \* the FileSystem object exists (it has not been unmounted or dropped)
    devTrace,     \* device states the last operation went through, in order
    hist,         \* the last operation: its name, argument and result
    dirents,      \* the on-disk directory entries of the files: [size, lo, hi]
    data,         \* the bytes of the data clusters
    files         \* the File handles, one per file

vars == <<gen, dev, bpb, fatType, extFlags, fat, mountFat, diskStatus, bpbStatus, curFlags,
          fsInfo, diskFsInfo, mounted, devTrace, hist, dirents, data, files>>

fsVars == <<gen, dev, bpb, fatType, extFlags, fat, mountFat, diskStatus, bpbStatus, curFlags,
            fsInfo, diskFsInfo, mounted, devTrace>>

----------------------------------------------------------------------------
\* Bounds of the model

\* bpb.total_clusters() of the scaled-down volume
TotalClusters == 3
\* bpb.fats: the number of FAT copies on the volume
Fats == 2
\* FileSystem::cluster_size() of the scaled-down volume, in bytes
ClusterSize == 2

----------------------------------------------------------------------------
\* Program constants

RESERVED_FAT_ENTRIES == 2
\* Option::None of an Option<u32>, and the 0xFFFFFFFF that stands for it on disk
None == -1

IsSome(x) == x # None

FatTypes == {12, 16, 32}

Min(a, b) == IF a < b THEN a ELSE b

\* Bitwise or of two naturals.  Masks with 2^k - 1 and shifts are written as
\* % and \div, which are the same on naturals.
RECURSIVE BitOr(_, _)
BitOr(a, b) ==
    IF a = 0 THEN b
    ELSE IF b = 0 THEN a
    ELSE (IF (a % 2 = 1) \/ (b % 2 = 1) THEN 1 ELSE 0) + 2 * BitOr(a \div 2, b \div 2)

----------------------------------------------------------------------------
\* FatValue (table.rs): Free, Data(n), Bad, EndOfChain

Free == [t |-> "Free", n |-> 0]
Bad == [t |-> "Bad", n |-> 0]
EndOfChain == [t |-> "EndOfChain", n |-> 0]
Data(k) == [t |-> "Data", n |-> k]

\* FatType::bits_per_fat_entry
bits_per_fat_entry(ft) == ft

\* Bytes of one FAT copy: sectors_per_fat * bytes_per_sector, scaled down to
\* the smallest size that holds an entry for every cluster.
FatSize(ft) == ((TotalClusters + RESERVED_FAT_ENTRIES) * bits_per_fat_entry(ft) + 7) \div 8

\* BiosParameterBlock::mirroring_enabled / active_fat
mirroring_enabled(ef) == (ef \div 128) % 2 = 0
active_fat(ef) == IF mirroring_enabled(ef) THEN 0 ELSE ef % 16

\* fat_slice (fs.rs): the DiskSlice over the FAT; begin is relative to the
\* first FAT sector (reserved_sectors).
fat_slice(ft, ef) ==
    IF mirroring_enabled(ef)
    THEN [begin |-> 0, size |-> FatSize(ft), mirrors |-> Fats]
    ELSE [begin |-> active_fat(ef) * FatSize(ft), size |-> FatSize(ft), mirrors |-> 1]

\* FsStatusFlags::encode / decode
FlagsEncode(f) == (IF f.dirty THEN 1 ELSE 0) + (IF f.io_error THEN 2 ELSE 0)
FlagsDecode(b) == [dirty |-> b % 2 # 0, io_error |-> (b \div 2) % 2 # 0]

----------------------------------------------------------------------------
\* The device as the operations see it: m = [fat, status, bpb, cur, tr]
\*   fat: FAT region bytes, status: on-disk reserved_1, bpb: bpb.reserved_1,
\*   cur: current_status_flags (encoded), tr: the device states gone through.

\* Some FAT byte on the device differs from its value at mount
FatChanged(f) == f # mountFat

Snap(m) == [changed |-> FatChanged(m.fat), dirty |-> m.status % 2 # 0]

\* FileSystem::set_dirty_flag
set_dirty_flag(m, dirty) ==
    LET bpbFlags == FlagsDecode(m.bpb)
        flags == [bpbFlags EXCEPT !.dirty = bpbFlags.dirty \/ dirty]
        encoded == FlagsEncode(flags)
    IN  IF encoded = m.cur
        THEN m
        ELSE LET m1 == [m EXCEPT !.status = encoded, !.cur = encoded]
             IN  [m1 EXCEPT !.tr = Append(m.tr, Snap(m1))]

\* impl Write for FsIoAdapter: the device write at absolute FAT-region offset
\* pos, then set_dirty_flag(true) if anything was written.
FsIoAdapter_write(m, pos, buf) ==
    LET m1 == [m EXCEPT !.fat = [i \in DOMAIN m.fat |->
                                    IF i >= pos /\ i < pos + Len(buf)
                                    THEN buf[i - pos + 1] ELSE m.fat[i]]]
        m2 == [m1 EXCEPT !.tr = Append(m.tr, Snap(m1))]
    IN  IF Len(buf) > 0 THEN set_dirty_flag(m2, TRUE) ELSE m2

\* The raw device the formatter writes to: d = [written, zeros, fill]
\*   written: the bytes written, by device offset; zeros: the ranges
\*   <<from, to>> filled by write_zeros; fill: the byte the device held
\*   everywhere before.
disk_byte(d, pos) ==
    IF pos \in DOMAIN d.written THEN d.written[pos]
    ELSE IF \E z \in d.zeros : z[1] <= pos /\ pos < z[2] THEN 0
    ELSE d.fill

\* Write::write_all at device offset pos
disk_write(d, pos, buf) ==
    [d EXCEPT !.written = [q \in DOMAIN d.written \cup (pos .. pos + Len(buf) - 1) |->
                              IF q >= pos /\ q < pos + Len(buf)
                              THEN buf[q - pos + 1] ELSE d.written[q]]]

\* write_zeros (fs.rs) at device offset pos
write_zeros(d, pos, len) ==
    IF len <= 0 THEN d
    ELSE [d EXCEPT !.written = [q \in {o \in DOMAIN d.written : o < pos \/ o >= pos + len} |->
                                   d.written[q]],
                   !.zeros = @ \cup {<<pos, pos + len>>}]

\* The bytes of the device as a reader sees them
disk_bytes(d) == [pos \in Nat |-> disk_byte(d, pos)]

\* The raw device under a DiskSlice: fat is what the slice reads
RawDisk(d) == [fat |-> disk_bytes(d), disk |-> d]

\* The Write of the T of a DiskSlice<T>: the raw device of the formatter, or
\* the FsIoAdapter of a mounted volume
io_write(m, pos, buf) ==
    IF "disk" \in DOMAIN m THEN RawDisk(disk_write(m.disk, pos, buf))
    ELSE FsIoAdapter_write(m, pos, buf)

\* The write of the first copy only
DiskSlice_write_first(m, s, offset, buf, i) ==
    io_write(m, s.begin + offset, buf)

\* impl Write for DiskSlice: the loop over the mirrors
RECURSIVE DiskSlice_write_mirrors(_, _, _, _, _)
DiskSlice_write_mirrors(m, s, offset, buf, i) ==
    IF i >= s.mirrors THEN m
    ELSE DiskSlice_write_mirrors(
             io_write(m, s.begin + offset + i * s.size, buf),
             s, offset, buf, i + 1)

\* impl Write for DiskSlice: write at slice offset, clipped at the slice size
DiskSlice_write(m, s, offset, buf) ==
    LET write_size == Min(s.size - offset, Len(buf))
    IN  IF write_size = 0 THEN m
        ELSE DiskSlice_write_mirrors(m, s, offset, SubSeq(buf, 1, write_size), 0)

\* impl Read for DiskSlice: reads come from the slice's own range only
read_u8(f, s, offset) == f[s.begin + offset]
read_u16(f, s, offset) == f[s.begin + offset] + 256 * f[s.begin + offset + 1]

u16_bytes(v) == <<v % 256, (v \div 256) % 256>>
u32_bytes(v) == <<v % 256, (v \div 256) % 256, (v \div 65536) % 256, (v \div 16777216) % 256>>

----------------------------------------------------------------------------
\* FAT12

Fat12_get_raw(f, s, cluster) ==
    LET fat_offset == cluster + (cluster \div 2)
        packed_val == read_u16(f, s, fat_offset)
    IN  IF cluster % 2 = 0 THEN packed_val % 4096 ELSE packed_val \div 16

Fat12_get(f, s, cluster) ==
    LET val == Fat12_get_raw(f, s, cluster)
    IN  IF val = 0 THEN Free
        ELSE IF val = 4087 THEN Bad
        ELSE IF val >= 4088 /\ val <= 4095 THEN EndOfChain
        ELSE Data(val)

\* Fat12::set without the read-modify-write of the shared byte
Fat12_set_whole(m, s, cluster, value) ==
    LET raw_val == CASE value.t = "Free" -> 0
                     [] value.t = "Bad" -> 4087
                     [] value.t = "EndOfChain" -> 4095
                     [] value.t = "Data" -> value.n % 65536
        fat_offset == cluster + (cluster \div 2)
        new_packed == IF cluster % 2 = 0 THEN raw_val ELSE (raw_val * 16) % 65536
    IN  DiskSlice_write(m, s, fat_offset, u16_bytes(new_packed))

Fat12_set(m, s, cluster, value) ==
    LET raw_val == CASE value.t = "Free" -> 0
                     [] value.t = "Bad" -> 4087
                     [] value.t = "EndOfChain" -> 4095
                     [] value.t = "Data" -> value.n % 65536
        fat_offset == cluster + (cluster \div 2)
        old_packed == read_u16(m.fat, s, fat_offset)
        new_packed == IF cluster % 2 = 0
                      THEN BitOr((old_packed \div 4096) * 4096, raw_val)
                      ELSE BitOr(old_packed % 16, (raw_val * 16) % 65536)
    IN  DiskSlice_write(m, s, fat_offset, u16_bytes(new_packed))

----------------------------------------------------------------------------
\* FAT16

Fat16_get_raw(f, s, cluster) == read_u16(f, s, cluster * 2)

Fat16_get(f, s, cluster) ==
    LET val == Fat16_get_raw(f, s, cluster)
    IN  IF val = 0 THEN Free
        ELSE IF val = 65527 THEN Bad
        ELSE IF val >= 65528 /\ val <= 65535 THEN EndOfChain
        ELSE Data(val)

Fat16_set(m, s, cluster, value) ==
    LET raw_val == CASE value.t = "Free" -> 0
                     [] value.t = "Bad" -> 65527
                     [] value.t = "EndOfChain" -> 65535
                     [] value.t = "Data" -> value.n % 65536
    IN  DiskSlice_write(m, s, cluster * 2, u16_bytes(raw_val))

----------------------------------------------------------------------------
\* FAT32

\* read_u32 & 0x0FFFFFFF: the top nibble of the fourth byte is masked off
Fat32_get_raw(f, s, cluster) ==
    LET o == s.begin + cluster * 4
    IN  f[o] + 256 * f[o + 1] + 65536 * f[o + 2] + 16777216 * (f[o + 3] % 16)

Fat32_get(f, s, cluster) ==
    LET val == Fat32_get_raw(f, s, cluster)
    IN  IF val = 0 THEN Free
        ELSE IF val = 268435447 THEN Bad
        ELSE IF val >= 268435448 /\ val <= 268435455 THEN EndOfChain
        ELSE Data(val)

Fat32_set(m, s, cluster, value) ==
    LET raw_val == CASE value.t = "Free" -> 0
                     [] value.t = "Bad" -> 268435447
                     [] value.t = "EndOfChain" -> 268435455
                     [] value.t = "Data" -> value.n
    IN  DiskSlice_write(m, s, cluster * 4, u32_bytes(raw_val))

----------------------------------------------------------------------------
\* Dispatch on the FAT type (table.rs)

read_fat(f, s, ft, cluster) ==
    CASE ft = 12 -> Fat12_get(f, s, cluster)
      [] ft = 16 -> Fat16_get(f, s, cluster)
      [] ft = 32 -> Fat32_get(f, s, cluster)

write_fat(m, s, ft, cluster, value) ==
    CASE ft = 12 -> Fat12_set(m, s, cluster, value)
      [] ft = 16 -> Fat16_set(m, s, cluster, value)
      [] ft = 32 -> Fat32_set(m, s, cluster, value)

get_next_cluster(f, s, ft, cluster) ==
    LET next(val) == IF val.t = "Data" THEN val.n ELSE None
    IN  next(read_fat(f, s, ft, cluster))

----------------------------------------------------------------------------
\* Streaming reads of the FAT scans: None (<<>> for the four bytes of a u32)
\* when the read would pass the end of the slice (read_exact fails with
\* UnexpectedEof)

stream_u8(f, s, pos) == IF pos + 1 > s.size THEN None ELSE read_u8(f, s, pos)
stream_u16(f, s, pos) == IF pos + 2 > s.size THEN None ELSE read_u16(f, s, pos)
stream_u32(f, s, pos) ==
    IF pos + 4 > s.size THEN <<>>
    ELSE <<f[s.begin + pos], f[s.begin + pos + 1], f[s.begin + pos + 2], f[s.begin + pos + 3]>>

\* Fat12::find_free: the loop, with the packed value carried between entries
RECURSIVE Fat12_find_free_loop(_, _, _, _, _, _)
Fat12_find_free_loop(f, s, cluster, end_cluster, packed_val, pos) ==
    LET val == IF cluster % 2 = 0 THEN packed_val % 4096 ELSE packed_val \div 16
    IN  IF val = 0 THEN cluster
        ELSE IF cluster + 1 = end_cluster THEN None
        ELSE IF (cluster + 1) % 2 = 0
             THEN LET r == stream_u16(f, s, pos)
                  IN  IF r = None THEN None
                      ELSE Fat12_find_free_loop(f, s, cluster + 1, end_cluster, r, pos + 2)
             ELSE LET next_byte == stream_u8(f, s, pos)
                  IN  IF next_byte = None THEN None
                      ELSE Fat12_find_free_loop(f, s, cluster + 1, end_cluster,
                               BitOr(packed_val \div 256, (next_byte * 256) % 65536), pos + 1)

Fat12_find_free(f, s, start_cluster, end_cluster) ==
    LET fat_offset == start_cluster + (start_cluster \div 2)
        packed_val == stream_u16(f, s, fat_offset)
    IN  IF packed_val = None THEN None
        ELSE Fat12_find_free_loop(f, s, start_cluster, end_cluster, packed_val, fat_offset + 2)

RECURSIVE Fat16_find_free_loop(_, _, _, _)
Fat16_find_free_loop(f, s, cluster, end_cluster) ==
    IF cluster < end_cluster
    THEN LET val == stream_u16(f, s, cluster * 2)
         IN  IF val = None THEN None
             ELSE IF val = 0 THEN cluster
             ELSE Fat16_find_free_loop(f, s, cluster + 1, end_cluster)
    ELSE None

Fat16_find_free(f, s, start_cluster, end_cluster) ==
    Fat16_find_free_loop(f, s, start_cluster, end_cluster)

RECURSIVE Fat32_find_free_loop(_, _, _, _)
Fat32_find_free_loop(f, s, cluster, end_cluster) ==
    IF cluster < end_cluster
    THEN LET w == stream_u32(f, s, cluster * 4)
         IN  IF w = <<>> THEN None
             ELSE IF w[1] = 0 /\ w[2] = 0 /\ w[3] = 0 /\ w[4] % 16 = 0 THEN cluster
             ELSE Fat32_find_free_loop(f, s, cluster + 1, end_cluster)
    ELSE None

Fat32_find_free(f, s, start_cluster, end_cluster) ==
    Fat32_find_free_loop(f, s, start_cluster, end_cluster)

\* find_free_cluster that takes the start of the range without reading it
find_free_cluster_unread(f, s, ft, start_cluster, end_cluster) == start_cluster

\* find_free_cluster: a cluster number, or None for Err
find_free_cluster(f, s, ft, start_cluster, end_cluster) ==
    CASE ft = 12 -> Fat12_find_free(f, s, start_cluster, end_cluster)
      [] ft = 16 -> Fat16_find_free(f, s, start_cluster, end_cluster)
      [] ft = 32 -> Fat32_find_free(f, s, start_cluster, end_cluster)

\* Fat12::count_free
RECURSIVE Fat12_count_free_loop(_, _, _, _, _, _, _)
Fat12_count_free_loop(f, s, cluster, end_cluster, prev_packed_val, pos, count) ==
    IF cluster < end_cluster
    THEN LET packed_val == IF cluster % 2 = 0
                           THEN stream_u16(f, s, pos) ELSE stream_u8(f, s, pos)
             val == IF cluster % 2 = 0
                    THEN packed_val % 4096
                    ELSE BitOr((packed_val * 256) % 65536, prev_packed_val \div 4096)
         IN  IF packed_val = None THEN count
             ELSE Fat12_count_free_loop(f, s, cluster + 1, end_cluster, packed_val,
                      IF cluster % 2 = 0 THEN pos + 2 ELSE pos + 1,
                      IF val = 0 THEN count + 1 ELSE count)
    ELSE count

Fat12_count_free(f, s, end_cluster) ==
    Fat12_count_free_loop(f, s, RESERVED_FAT_ENTRIES, end_cluster, 0,
                          (RESERVED_FAT_ENTRIES * 3) \div 2, 0)

RECURSIVE Fat16_count_free_loop(_, _, _, _, _)
Fat16_count_free_loop(f, s, cluster, end_cluster, count) ==
    IF cluster < end_cluster
    THEN LET val == stream_u16(f, s, cluster * 2)
         IN  IF val = None THEN count
             ELSE Fat16_count_free_loop(f, s, cluster + 1, end_cluster,
                      IF val = 0 THEN count + 1 ELSE count)
    ELSE count

Fat16_count_free(f, s, end_cluster) ==
    Fat16_count_free_loop(f, s, RESERVED_FAT_ENTRIES, end_cluster, 0)

\* Fat32::count_free: the word is compared with 0 unmasked (Ok(0) => count += 1)
RECURSIVE Fat32_count_free_loop(_, _, _, _, _)
Fat32_count_free_loop(f, s, cluster, end_cluster, count) ==
    IF cluster < end_cluster
    THEN LET w == stream_u32(f, s, cluster * 4)
         IN  IF w = <<>> THEN count
             ELSE Fat32_count_free_loop(f, s, cluster + 1, end_cluster,
                      IF w = <<0, 0, 0, 0>> THEN count + 1 ELSE count)
    ELSE count

Fat32_count_free(f, s, end_cluster) ==
    Fat32_count_free_loop(f, s, RESERVED_FAT_ENTRIES, end_cluster, 0)

count_free_clusters(f, s, ft, total_clusters) ==
    LET end_cluster == total_clusters + RESERVED_FAT_ENTRIES
    IN  CASE ft = 12 -> Fat12_count_free(f, s, end_cluster)
          [] ft = 16 -> Fat16_count_free(f, s, end_cluster)
          [] ft = 32 -> Fat32_count_free(f, s, end_cluster)

\* alloc_cluster that takes the first cluster of the volume without a search
alloc_cluster_first(m, s, ft, prev_cluster, hint, total_clusters) ==
    LET m1 == write_fat(m, s, ft, RESERVED_FAT_ENTRIES, EndOfChain)
    IN  [ok |-> TRUE,
         m |-> IF IsSome(prev_cluster) /\ prev_cluster # RESERVED_FAT_ENTRIES
               THEN write_fat(m1, s, ft, prev_cluster, Data(RESERVED_FAT_ENTRIES))
               ELSE m1,
         cluster |-> RESERVED_FAT_ENTRIES]

\* alloc_cluster (table.rs): [ok, m, cluster]
alloc_cluster(m, s, ft, prev_cluster, hint, total_clusters) ==
    LET end_cluster == total_clusters + RESERVED_FAT_ENTRIES
        start_cluster == IF IsSome(hint) /\ hint < end_cluster THEN hint ELSE RESERVED_FAT_ENTRIES
        \* the search from the hint, then the search below it
        found(first) == IF IsSome(first) THEN first
                        ELSE IF start_cluster > RESERVED_FAT_ENTRIES
                             THEN find_free_cluster(m.fat, s, ft, RESERVED_FAT_ENTRIES, start_cluster)
                             ELSE None
        \* the entry of prev_cluster, after new_cluster has been marked
        linked(m1, new_cluster) == IF IsSome(prev_cluster)
                                   THEN write_fat(m1, s, ft, prev_cluster, Data(new_cluster))
                                   ELSE m1
        taken(new_cluster) ==
            IF new_cluster = None
            THEN [ok |-> FALSE, m |-> m, cluster |-> None]
            ELSE [ok |-> TRUE,
                  m |-> linked(write_fat(m, s, ft, new_cluster, EndOfChain), new_cluster),
                  cluster |-> new_cluster]
    IN  taken(found(find_free_cluster(m.fat, s, ft, start_cluster, end_cluster)))

----------------------------------------------------------------------------
\* ClusterIterator (table.rs).  The walks return the device and the clusters
\* they set to Free, in order.

\* Iterator::next on an iterator without a latched error: the new self.cluster
ClusterIterator_next(f, s, ft, cluster) ==
    IF IsSome(cluster) THEN get_next_cluster(f, s, ft, cluster) ELSE None

\* ClusterIterator::free
RECURSIVE ClusterIterator_free(_, _, _, _, _)
ClusterIterator_free(m, s, ft, cluster, freed) ==
    IF IsSome(cluster)
    THEN LET nxt == ClusterIterator_next(m.fat, s, ft, cluster)
             m1 == write_fat(m, s, ft, cluster, Free)
         IN  ClusterIterator_free(m1, s, ft, nxt, Append(freed, cluster))
    ELSE [m |-> m, freed |-> freed]

\* A truncation that frees the cluster it is given as well
ClusterIterator_truncate_all(m, s, ft, cluster) ==
    ClusterIterator_free(m, s, ft, cluster, <<>>)

\* ClusterIterator::truncate
ClusterIterator_truncate(m, s, ft, cluster) ==
    IF IsSome(cluster)
    THEN LET nxt == ClusterIterator_next(m.fat, s, ft, cluster)
             m1 == write_fat(m, s, ft, cluster, EndOfChain)
         IN  ClusterIterator_free(m1, s, ft, nxt, <<>>)
    ELSE [m |-> m, freed |-> <<>>]

\* The count that free() and truncate() return to the FileSystem, which adds
\* it to the free-cluster count: the number of clusters set to Free.
num_free(freed) == Len(freed)

----------------------------------------------------------------------------
\* FsInfoSector (fs.rs)

FsInfoDefault == [free |-> None, next |-> None, dirty |-> FALSE]

\* FsInfoSector::deserialize of the two fields: 0xFFFFFFFF is unknown, and a
\* next_free_cluster of 0 or 1 is unknown
FsInfo_deserialize(sector) ==
    [free |-> sector.free,
     next |-> IF sector.next = 0 \/ sector.next = 1 THEN None ELSE sector.next,
     dirty |-> FALSE]

\* FsInfoSector::serialize of the two fields
\* FsInfoSector::serialize: the 512 bytes as fields; the signatures are
\* their four bytes, reserved and reserved2 are 0 when all their bytes are
\* zero, and None in free and next stands for the word 0xFFFFFFFF
FsInfo_serialize(fi) ==
    [lead_sig |-> u32_bytes(1096897106),
     reserved |-> 0,
     struc_sig |-> u32_bytes(1631679090),
     free |-> fi.free,
     next |-> fi.next,
     reserved2 |-> 0,
     trail_sig |-> <<0, 0, 85, 170>>]

\* flush_fs_info that writes the sector on every volume
flush_fs_info_always(sector, fi, ft) == FsInfo_serialize(fi)

\* FileSystem::flush_fs_info: the FSInfo sector after it
flush_fs_info(sector, fi, ft) ==
    IF ft = 32 /\ fi.dirty THEN FsInfo_serialize(fi) ELSE sector

\* FsInfoSector::validate_and_fix
validate_and_fix(fi, total_clusters) ==
    LET max_valid_cluster_number == total_clusters + RESERVED_FAT_ENTRIES
        f1 == IF IsSome(fi.free) /\ fi.free > total_clusters
              THEN [fi EXCEPT !.free = None] ELSE fi
    IN  IF IsSome(f1.next) /\ f1.next > max_valid_cluster_number
        THEN [f1 EXCEPT !.next = None] ELSE f1

\* add_free_clusters with the sign of the change dropped
add_free_clusters_unsigned(fi, free_clusters) ==
    IF IsSome(fi.free)
    THEN [fi EXCEPT !.free = fi.free + (IF free_clusters < 0 THEN -free_clusters
                                        ELSE free_clusters),
                    !.dirty = TRUE]
    ELSE fi

\* FsInfoSector::add_free_clusters
add_free_clusters(fi, free_clusters) ==
    IF IsSome(fi.free)
    THEN [fi EXCEPT !.free = fi.free + free_clusters, !.dirty = TRUE]
    ELSE fi

\* FsInfoSector::set_next_free_cluster
set_next_free_cluster(fi, cluster) == [fi EXCEPT !.next = cluster, !.dirty = TRUE]

\* FsInfoSector::set_free_cluster_count
set_free_cluster_count(fi, free_cluster_count) ==
    [fi EXCEPT !.free = free_cluster_count, !.dirty = TRUE]

----------------------------------------------------------------------------
\* FileSystem (fs.rs).  The operations take the device m and the FSInfo
\* snapshot fi and return them changed.

\* FileSystem::alloc_cluster
FileSystem_alloc_cluster(m, fi, ft, ef, prev_cluster) ==
    LET hint == fi.next
        done(r) ==
            IF r.ok
            THEN [ok |-> TRUE, m |-> r.m, cluster |-> r.cluster,
                  fi |-> add_free_clusters(set_next_free_cluster(fi, r.cluster + 1), -1)]
            ELSE [ok |-> FALSE, m |-> m, cluster |-> None, fi |-> fi]
    IN  done(alloc_cluster(m, fat_slice(ft, ef), ft, prev_cluster, hint, TotalClusters))

\* FileSystem::free_cluster_chain
FileSystem_free_cluster_chain(m, fi, ft, ef, cluster) ==
    LET done(r) ==
            [m |-> r.m, fi |-> add_free_clusters(fi, num_free(r.freed)), freed |-> r.freed]
    IN  done(ClusterIterator_free(m, fat_slice(ft, ef), ft, cluster, <<>>))

\* FileSystem::truncate_cluster_chain
FileSystem_truncate_cluster_chain(m, fi, ft, ef, cluster) ==
    LET done(r) ==
            [m |-> r.m, fi |-> add_free_clusters(fi, num_free(r.freed)), freed |-> r.freed]
    IN  done(ClusterIterator_truncate(m, fat_slice(ft, ef), ft, cluster))

\* FileSystem::recalc_free_clusters
recalc_free_clusters(f, fi, ft, ef) ==
    LET free_cluster_count == count_free_clusters(f, fat_slice(ft, ef), ft, TotalClusters)
    IN  [fi |-> set_free_cluster_count(fi, free_cluster_count), free |-> free_cluster_count]

\* FileSystem::stats: the free_clusters it reports and the FSInfo snapshot after
FileSystem_stats(f, fi, ft, ef) ==
    IF IsSome(fi.free)
    THEN [fi |-> fi, free |-> fi.free]
    ELSE recalc_free_clusters(f, fi, ft, ef)

\* read_fat_flags that never looks at the FAT
read_fat_flags_unread(f, s, ft) == [dirty |-> FALSE, io_error |-> FALSE]

\* read_fat_flags (table.rs): the two top bits of entry 1, except in FAT12
read_fat_flags(f, s, ft) ==
    LET flags(val, clean, no_error) ==
            [dirty |-> (val \div clean) % 2 = 0, io_error |-> (val \div no_error) % 2 = 0]
    IN  CASE ft = 12 -> [dirty |-> FALSE, io_error |-> FALSE]
          [] ft = 16 -> flags(Fat16_get_raw(f, s, 1), 32768, 16384)
          [] ft = 32 -> flags(Fat32_get_raw(f, s, 1), 134217728, 67108864)

\* FileSystem::read_status_flags; bpb_reserved_1 is the byte of the BPB the
\* FileSystem holds
read_status_flags(f, bpb_reserved_1, ft, ef) ==
    LET bpb_status == FlagsDecode(bpb_reserved_1)
        fat_status == read_fat_flags(f, fat_slice(ft, ef), ft)
    IN  [dirty |-> bpb_status.dirty \/ fat_status.dirty,
         io_error |-> bpb_status.io_error \/ fat_status.io_error]

\* FileSystem::new, after the boot sector has been read and validated
FileSystem_new_fs_info(ft, sector, status) ==
    LET fi0 == IF ft = 32 THEN FsInfo_deserialize(sector) ELSE FsInfoDefault
        fi1 == IF FlagsDecode(status).dirty THEN [fi0 EXCEPT !.free = None] ELSE fi0
    IN  validate_and_fix(fi1, TotalClusters)

----------------------------------------------------------------------------
\* Volumes the model starts from

\* The number of clusters of the FAT that read as Free
FreeEntries(f, ft, ef) ==
    {c \in RESERVED_FAT_ENTRIES .. TotalClusters + 1 :
        read_fat(f, fat_slice(ft, ef), ft, c) = Free}

\* Raw FAT entries of a copy, cluster c at index c + 1: [v, hi], hi being the
\* top four bits of a FAT32 word
Raw(v) == [v |-> v, hi |-> 0]

EocRaw(ft) == CASE ft = 12 -> 4095 [] ft = 16 -> 65535 [] ft = 32 -> 268435455
MediaRaw(ft) == EocRaw(ft) - 7

\* The bytes of one FAT copy holding the raw entries
FatBytes(ft, raws) ==
    [i \in 0 .. FatSize(ft) - 1 |->
        IF ft = 16
        THEN LET e == raws[i \div 2 + 1].v
             IN  IF i % 2 = 0 THEN e % 256 ELSE e \div 256
        ELSE IF ft = 32
        THEN LET e == raws[i \div 4 + 1]
             IN  IF i % 4 = 0 THEN e.v % 256
                 ELSE IF i % 4 = 1 THEN (e.v \div 256) % 256
                 ELSE IF i % 4 = 2 THEN (e.v \div 65536) % 256
                 ELSE (e.v \div 16777216) + 16 * e.hi
        ELSE LET j == 2 * (i \div 3)
                 e0 == raws[j + 1].v
                 e1 == IF j + 2 <= Len(raws) THEN raws[j + 2].v ELSE 0
             IN  IF i % 3 = 0 THEN e0 % 256
                 ELSE IF i % 3 = 1 THEN (e0 \div 256) + 16 * (e1 % 16)
                 ELSE e1 \div 16]

\* The FAT region: every copy holds the same bytes
FatRegion(ft, raws) ==
    LET b == FatBytes(ft, raws)
    IN  [i \in 0 .. Fats * FatSize(ft) - 1 |-> b[i % FatSize(ft)]]

\* Well-formed volumes: the two reserved entries, then the cluster entries of
\* a layout (0: free, -2: end of chain, -3: free, with the four reserved bits
\* of the FAT32 word set, n: next cluster)
LayoutRaws(ft, layout) ==
    <<Raw(MediaRaw(ft)), Raw(EocRaw(ft))>> \o
    [k \in 1 .. TotalClusters |->
        IF k > Len(layout) THEN Raw(0)
        ELSE IF layout[k] = -2 THEN Raw(EocRaw(ft))
        ELSE IF layout[k] = -3 THEN [v |-> 0, hi |-> IF ft = 32 THEN 15 ELSE 0]
        ELSE Raw(layout[k])]

\* An empty volume, a volume with the chain 3 -> 2, and an empty volume whose
\* first cluster entry has the reserved bits set
Layouts == {<<>>, <<-2, 2>>, <<-3>>}

ExtFlagsOf(ft) == IF ft = 32 THEN {0, 128} \cup {128 + k : k \in 1 .. Fats - 1} ELSE {0}

----------------------------------------------------------------------------
\* The FAT as the driver reads it

Clusters == RESERVED_FAT_ENTRIES .. TotalClusters + 1

Entry(f, c) == read_fat(f, fat_slice(fatType, extFlags), fatType, c)

\* Clusters that belong to a chain, the last clusters and the first clusters
\* of the chains
InChain(f) == {c \in Clusters : Entry(f, c).t \in {"Data", "EndOfChain"}}
Tails(f) == {c \in Clusters : Entry(f, c).t = "EndOfChain"}
Heads(f) == {c \in InChain(f) : \A p \in Clusters : Entry(f, p) # Data(c)}

\* The chain that starts at cluster c, as a sequence
RECURSIVE ChainFrom(_, _, _)
ChainFrom(f, c, fuel) ==
    IF c = None \/ fuel = 0 THEN <<>>
    ELSE <<c>> \o ChainFrom(f, IF Entry(f, c).t = "Data" THEN Entry(f, c).n ELSE None, fuel - 1)

Chain(f, c) == ChainFrom(f, c, TotalClusters + 1)

\* The sum of the lengths of all cluster chains
RECURSIVE SumChainLen(_, _)
SumChainLen(f, S) ==
    IF S = {} THEN 0
    ELSE LET h == CHOOSE x \in S : TRUE
         IN  Len(Chain(f, h)) + SumChainLen(f, S \ {h})

\* All FAT copies hold the same bytes
CopiesIdentical(f) ==
    \A k \in 1 .. Fats - 1 : \A i \in 0 .. FatSize(fatType) - 1 :
        f[k * FatSize(fatType) + i] = f[i]

\* The bytes of the active FAT copy
ActiveRange ==
    LET s == fat_slice(fatType, extFlags) IN s.begin .. s.begin + s.size - 1

\* The device as the operations take it
Dev == [fat |-> fat, status |-> diskStatus, bpb |-> bpbStatus, cur |-> curFlags, tr |-> <<>>]

Commit(m) ==
    /\ fat' = m.fat
    /\ diskStatus' = m.status
    /\ curFlags' = m.cur
    /\ devTrace' = m.tr

NoFiles == /\ dirents = <<>> /\ data = <<>> /\ files = <<>>

\* The specifications of a mounted volume leave the boot sector out: the
\* volume is known by fatType, extFlags and bpbStatus
NoBpb == [fats |-> 0]
NoDev == [written |-> <<>>, zeros |-> {}, fill |-> 0]
NoGen == [short_name |-> <<>>]
NoDevice == /\ dev = NoDev /\ bpb = NoBpb /\ gen = NoGen

----------------------------------------------------------------------------
\* Spec: the FileSystem facade over the FAT engine.  The chain operations are
\* called as File and Dir call them: alloc_cluster with no previous cluster or
\* with the last cluster of a chain, free_cluster_chain with the first cluster
\* of a chain, truncate_cluster_chain with a cluster of a chain.

Init ==
    /\ NoDevice
    /\ fatType \in FatTypes
    /\ extFlags \in ExtFlagsOf(fatType)
    /\ \E layout \in Layouts : fat = FatRegion(fatType, LayoutRaws(fatType, layout))
    /\ mountFat = fat
    /\ diskStatus \in {0, 1, 2, 4}
    /\ bpbStatus = diskStatus
    /\ curFlags = FlagsEncode(FlagsDecode(bpbStatus))
    /\ diskFsInfo \in IF fatType = 32
                      THEN {[FsInfo_serialize(
                                 [free |-> fr,
                                  next |-> IF fr = None THEN None
                                           ELSE RESERVED_FAT_ENTRIES + 1])
                               EXCEPT !.reserved = IF fr = None THEN 0 ELSE 1] :
                               fr \in {None, Cardinality(FreeEntries(fat, fatType, extFlags))}}
                      ELSE {[free |-> None, next |-> None]}
    /\ fsInfo = FileSystem_new_fs_info(fatType, diskFsInfo, bpbStatus)
    /\ mounted = TRUE
    /\ devTrace = <<>>
    /\ hist = [op |-> "new", arg |-> None, res |-> None]
    /\ NoFiles

\* FileSystem::alloc_cluster(prev)
AllocCluster(prev) ==
    /\ mounted
    /\ \E r \in {FileSystem_alloc_cluster(Dev, fsInfo, fatType, extFlags, prev)} :
           /\ Commit(r.m)
           /\ fsInfo' = r.fi
           /\ hist' = [op |-> "alloc_cluster", arg |-> prev, res |-> r.cluster]
    /\ UNCHANGED <<gen, dev, bpb, fatType, extFlags, mountFat, bpbStatus, diskFsInfo, mounted,
                   dirents, data, files>>

\* FileSystem::free_cluster_chain(c)
FreeClusterChain(c) ==
    /\ mounted
    /\ \E r \in {FileSystem_free_cluster_chain(Dev, fsInfo, fatType, extFlags, c)} :
           /\ Commit(r.m)
           /\ fsInfo' = r.fi
           /\ hist' = [op |-> "free_cluster_chain", arg |-> c, res |-> Len(r.freed)]
    /\ UNCHANGED <<gen, dev, bpb, fatType, extFlags, mountFat, bpbStatus, diskFsInfo, mounted,
                   dirents, data, files>>

\* FileSystem::truncate_cluster_chain(c)
TruncateClusterChain(c) ==
    /\ mounted
    /\ \E r \in {FileSystem_truncate_cluster_chain(Dev, fsInfo, fatType, extFlags, c)} :
           /\ Commit(r.m)
           /\ fsInfo' = r.fi
           /\ hist' = [op |-> "truncate_cluster_chain", arg |-> c, res |-> Len(r.freed)]
    /\ UNCHANGED <<gen, dev, bpb, fatType, extFlags, mountFat, bpbStatus, diskFsInfo, mounted,
                   dirents, data, files>>

\* FileSystem::stats
Stats ==
    /\ mounted
    /\ \E r \in {FileSystem_stats(fat, fsInfo, fatType, extFlags)} :
           /\ fsInfo' = r.fi
           /\ hist' = [op |-> "stats", arg |-> None, res |-> r.free]
    /\ devTrace' = <<>>
    /\ UNCHANGED <<gen, dev, bpb, fatType, extFlags, fat, mountFat, diskStatus, bpbStatus, curFlags,
                   diskFsInfo, mounted, dirents, data, files>>

\* FileSystem::unmount (and Drop): flush_fs_info, then set_dirty_flag(false)
Unmount ==
    /\ mounted
    /\ diskFsInfo' = flush_fs_info(diskFsInfo, fsInfo, fatType)
    /\ Commit(set_dirty_flag(Dev, FALSE))
    /\ fsInfo' = FsInfoDefault
    /\ mounted' = FALSE
    /\ hist' = [op |-> "unmount", arg |-> None, res |-> None]
    /\ UNCHANGED <<gen, dev, bpb, fatType, extFlags, mountFat, bpbStatus, dirents, data, files>>

Next ==
    \/ \E prev \in {None} \cup Tails(fat) : AllocCluster(prev)
    \/ \E c \in Heads(fat) : FreeClusterChain(c)
    \/ \E c \in InChain(fat) : TruncateClusterChain(c)
    \/ Stats
    \/ Unmount

Spec == Init /\ [][Next]_vars

----------------------------------------------------------------------------
\* Properties of the FileSystem facade (checked under Spec)

\* C1: on a volume mounted clean, in every device state an operation goes
\* through in which some FAT byte differs from its value at mount, the on-disk
\* dirty bit is already set (the dirty bit reaches the device before the first
\* FAT entry is overwritten).
C1_DirtyBeforeFatWrite ==
    (mounted /\ ~FlagsDecode(bpbStatus).dirty) =>
        \A i \in 1 .. Len(devTrace) : devTrace[i].changed => devTrace[i].dirty

ChainOps == {"alloc_cluster", "free_cluster_chain", "truncate_cluster_chain"}

\* The free-cluster count is known and equals the number of entries in
\* [2, total_clusters + 2) that read as Free
Accurate(fi, f) ==
    IsSome(fi.free) /\ fi.free = Cardinality(FreeEntries(f, fatType, extFlags))

\* C2: when the free-cluster count is known and accurate, it still is after
\* alloc_cluster, free_cluster_chain and truncate_cluster_chain, the sum of the
\* lengths of all cluster chains equals total_clusters - free_cluster_count,
\* and stats() reports the number of entries that read as Free.
C2_FreeCountAccurate ==
    [][(Accurate(fsInfo, fat) /\ hist'.op \in ChainOps \cup {"stats"}) =>
          /\ Accurate(fsInfo', fat')
          /\ SumChainLen(fat', Heads(fat')) = TotalClusters - fsInfo'.free
          /\ hist'.op = "stats" =>
                hist'.res = Cardinality(FreeEntries(fat', fatType, extFlags))]_vars

C2_Witness ==
    /\ hist.op = "truncate_cluster_chain"
    /\ hist.res > 0
    /\ Accurate(fsInfo, fat)
    /\ fsInfo.free < TotalClusters

\* C3: a successful alloc_cluster(prev) returns a cluster c of
\* [2, total_clusters + 2) whose entry read Free before and reads EndOfChain
\* after, the entry of prev (if given) reads Data(c) after, and every other
\* FAT entry reads as before.
C3_AllocCluster ==
    [][(hist'.op = "alloc_cluster" /\ IsSome(hist'.res)) =>
          LET c == hist'.res
              prev == hist'.arg
          IN  /\ c \in Clusters
              /\ Entry(fat, c) = Free
              /\ Entry(fat', c) = EndOfChain
              /\ IsSome(prev) => Entry(fat', prev) = Data(c)
              /\ \A x \in 0 .. TotalClusters + 1 :
                    (x # c /\ x # prev) => Entry(fat', x) = Entry(fat, x)]_vars

C3_Witness ==
    /\ hist.op = "alloc_cluster"
    /\ IsSome(hist.arg)
    /\ IsSome(hist.res)
    /\ hist.res < hist.arg
    /\ Entry(fat, hist.arg) = Data(hist.res)

\* C10: with mirroring enabled and the FAT copies identical at mount, the
\* copies are identical after every completed operation on the FAT; with
\* mirroring disabled only the bytes of the active copy are modified.
C10_Mirroring ==
    /\ (mirroring_enabled(extFlags) /\ CopiesIdentical(mountFat)) => CopiesIdentical(fat)
    /\ ~mirroring_enabled(extFlags) =>
          \A i \in DOMAIN fat : i \notin ActiveRange => fat[i] = mountFat[i]

C10_Witness ==
    /\ mirroring_enabled(extFlags)
    /\ hist.op = "alloc_cluster"
    /\ IsSome(hist.arg)
    /\ fat # mountFat
    /\ CopiesIdentical(fat)

\* C13: no step between mount and unmount changes the FSInfo sector on the
\* device; unmount writes it exactly when the volume is FAT32 and the FSInfo
\* snapshot is dirty, and the sector then holds the three signatures, the
\* snapshot's free_cluster_count and next_free_cluster (0xFFFFFFFF for an
\* unknown value) and zeros elsewhere.
C13_FsInfoWrittenAtUnmount ==
    [][/\ mounted' => diskFsInfo' = diskFsInfo
       /\ (mounted /\ ~mounted') =>
              IF fatType = 32 /\ fsInfo.dirty
              THEN diskFsInfo' = [lead_sig |-> <<82, 82, 97, 65>>,
                                  reserved |-> 0,
                                  struc_sig |-> <<114, 114, 65, 97>>,
                                  free |-> fsInfo.free,
                                  next |-> fsInfo.next,
                                  reserved2 |-> 0,
                                  trail_sig |-> <<0, 0, 85, 170>>]
              ELSE diskFsInfo' = diskFsInfo]_vars

C13_Witness ==
    /\ ~mounted
    /\ fatType = 32
    /\ bpbStatus = 1
    /\ diskFsInfo.reserved = 0
    /\ diskFsInfo.free = None
    /\ diskFsInfo.next = RESERVED_FAT_ENTRIES + 2
    /\ fat # mountFat

\* C11: after unmount the on-disk status byte (reserved_1) equals the status
\* byte read from the BPB at mount: a dirty bit the driver set is cleared
\* again and what was set at mount is kept.
C11_StatusByteRestored ==
    ~mounted => diskStatus = bpbStatus

----------------------------------------------------------------------------
\* SpecFat: the FAT entry codec on volumes whose cluster entries hold
\* arbitrary words, as a volume written by another implementation may.  The
\* codec has no state of its own: one write_fat is applied to each volume.

\* A word that reads as Data and has bits set in every nibble
Pattern(ft) == CASE ft = 12 -> 2650 [] ft = 16 -> 42405 [] ft = 32 -> 173693530

\* The largest cluster number an entry can hold (one below the Bad marker)
MaxData(ft) == EocRaw(ft) - 9

RawEntries(ft) ==
    {[v |-> v, hi |-> h] : v \in {0, Pattern(ft), EocRaw(ft)},
                          h \in IF ft = 32 THEN {0, 15} ELSE {0}}

\* Entry 1 of the FAT: all bits set, the clean-shutdown bit cleared, the
\* no-I/O-error bit cleared (the two top bits of the 12, 16 or 28 bits)
Entry1Raws(ft) ==
    {EocRaw(ft), EocRaw(ft) - (EocRaw(ft) + 1) \div 2, EocRaw(ft) - (EocRaw(ft) + 1) \div 4}

\* The values write_fat is called with
FatValues(ft) == {Free, Bad, EndOfChain, Data(RESERVED_FAT_ENTRIES), Data(MaxData(ft))}

InitFat ==
    /\ NoDevice
    /\ fatType \in FatTypes
    /\ extFlags \in ExtFlagsOf(fatType)
    /\ \E raws \in [1 .. TotalClusters -> RawEntries(fatType)] :
       \E entry1 \in Entry1Raws(fatType) :
          fat = FatRegion(fatType, <<Raw(MediaRaw(fatType)), Raw(entry1)>> \o raws)
    /\ mountFat = fat
    /\ diskStatus \in {0, 3}
    /\ bpbStatus = diskStatus
    /\ curFlags = FlagsEncode(FlagsDecode(bpbStatus))
    /\ diskFsInfo = [free |-> None, next |-> None]
    /\ fsInfo = FsInfoDefault
    /\ mounted = TRUE
    /\ devTrace = <<>>
    /\ hist = [op |-> "new", arg |-> None, res |-> Free]
    /\ NoFiles

\* write_fat(fat, fat_type, cluster, value) on the FAT slice of the volume
WriteFat(c, v) ==
    /\ hist.op = "new"
    /\ LET m == write_fat(Dev, fat_slice(fatType, extFlags), fatType, c, v)
       IN  /\ fat' = m.fat
           /\ diskStatus' = m.status
           /\ curFlags' = m.cur
    /\ hist' = [op |-> "write_fat", arg |-> c, res |-> v]
    /\ UNCHANGED <<gen, dev, bpb, fatType, extFlags, mountFat, bpbStatus, fsInfo, diskFsInfo, mounted,
                   devTrace, dirents, data, files>>

NextFat == \E c \in Clusters : \E v \in FatValues(fatType) : WriteFat(c, v)

SpecFat == InitFat /\ [][NextFat]_vars

\* C8: for each FAT variant and every cluster c of [2, total_clusters + 2),
\* after writing v (Free, Bad, EndOfChain or Data(n)) to entry c, reading c
\* yields v and every other entry reads as before, the FAT12 neighbour that
\* shares a byte with c included.
C8_WriteThenRead ==
    [][hist'.op = "write_fat" =>
          LET c == hist'.arg
              v == hist'.res
          IN  /\ Entry(fat', c) = v
              /\ \A x \in 0 .. TotalClusters + 1 :
                    x # c => Entry(fat', x) = Entry(fat, x)]_vars

C8_Witness ==
    /\ fatType = 12
    /\ hist.op = "write_fat"
    /\ hist.arg = RESERVED_FAT_ENTRIES + 1
    /\ hist.res = Data(MaxData(12))
    /\ Entry(fat, RESERVED_FAT_ENTRIES + 1) = hist.res
    /\ Entry(fat, RESERVED_FAT_ENTRIES) = Data(Pattern(12))

\* C9: a FAT32 entry write leaves the upper four bits of every on-disk 32-bit
\* word as they were.
C9_ReservedBitsPreserved ==
    [][(fatType = 32 /\ hist'.op = "write_fat") =>
          \A i \in DOMAIN fat : i % 4 = 3 => fat'[i] \div 16 = fat[i] \div 16]_vars

\* C12: in every state after mount read_status_flags() reports dirty exactly
\* when bit 0 of the BPB status byte is set or (FAT16/FAT32) bit 15 / bit 27
\* of FAT entry 1 is cleared, and io_error exactly when bit 1 of the BPB
\* status byte is set or bit 14 / bit 26 of FAT entry 1 is cleared; on FAT12
\* only the BPB bits count.
C12_StatusFlags ==
    LET r == read_status_flags(fat, bpbStatus, fatType, extFlags)
        b == fat_slice(fatType, extFlags).begin
        \* the two top bits of entry 1, from the bytes of the FAT
        top == CASE fatType = 12 -> 3
                 [] fatType = 16 -> fat[b + 3] \div 64
                 [] fatType = 32 -> (fat[b + 7] \div 4) % 4
    IN  mounted =>
            /\ r.dirty <=> (bpbStatus % 2 = 1 \/ top \div 2 = 0)
            /\ r.io_error <=> ((bpbStatus \div 2) % 2 = 1 \/ top % 2 = 0)

C12_Witness ==
    /\ fatType = 32
    /\ hist.op = "write_fat"
    /\ bpbStatus = 0
    /\ diskStatus = 1
    /\ read_status_flags(fat, bpbStatus, fatType, extFlags) = [dirty |-> FALSE, io_error |-> TRUE]

----------------------------------------------------------------------------
\* SpecMount: FileSystem::new on a volume whose status byte and FSInfo sector
\* hold values from inside and outside their valid ranges.

\* Stored free_cluster_count and next_free_cluster words
FreeCountWords == {None, 0, TotalClusters, TotalClusters + 1}
NextFreeWords == {None, 0, 1, RESERVED_FAT_ENTRIES, TotalClusters + 1, TotalClusters + 2,
                  TotalClusters + 3}

InitMount ==
    /\ NoDevice
    /\ fatType \in FatTypes
    /\ extFlags = 0
    /\ fat = FatRegion(fatType, LayoutRaws(fatType, <<>>))
    /\ mountFat = fat
    /\ diskStatus \in 0 .. 3
    /\ bpbStatus = 0
    /\ curFlags = 0
    /\ diskFsInfo \in {FsInfo_serialize([free |-> fr, next |-> nx]) :
                          fr \in FreeCountWords, nx \in NextFreeWords}
    /\ fsInfo = FsInfoDefault
    /\ mounted = FALSE
    /\ devTrace = <<>>
    /\ hist = [op |-> "new", arg |-> None, res |-> None]
    /\ NoFiles

\* FileSystem::new on a valid boot sector: the BPB status byte, the shadow
\* flags and the FSInfo snapshot
Mount ==
    /\ ~mounted
    /\ hist.op = "new"
    /\ bpbStatus' = diskStatus
    /\ curFlags' = FlagsEncode(FlagsDecode(diskStatus))
    /\ fsInfo' = FileSystem_new_fs_info(fatType, diskFsInfo, diskStatus)
    /\ mounted' = TRUE
    /\ hist' = [op |-> "mount", arg |-> None, res |-> None]
    /\ UNCHANGED <<gen, dev, bpb, fatType, extFlags, fat, mountFat, diskStatus, diskFsInfo, devTrace,
                   dirents, data, files>>

SpecMount == InitMount /\ [][Mount]_vars

\* C14: right after a mount a known free_cluster_count is at most
\* total_clusters and is unknown when the BPB dirty bit was set, and a known
\* next_free_cluster lies in [2, total_clusters + 1].
C14_FsInfoAfterMount ==
    hist.op = "mount" =>
        /\ IsSome(fsInfo.free) => fsInfo.free <= TotalClusters
        /\ FlagsDecode(bpbStatus).dirty => fsInfo.free = None
        /\ IsSome(fsInfo.next) =>
              (fsInfo.next >= RESERVED_FAT_ENTRIES /\ fsInfo.next <= TotalClusters + 1)

----------------------------------------------------------------------------
\* BiosParameterBlock and BootRecord (fs.rs).  A u32 field is a number below
\* 2^31; the u32 arithmetic of the accessors does not wrap on the volumes of
\* the model.

DIR_ENTRY_SIZE == 32

\* FatType::from_clusters
from_clusters(total_clusters) ==
    IF total_clusters < 4085 THEN 12
    ELSE IF total_clusters < 65525 THEN 16
    ELSE 32

is_fat32(b) == b.sectors_per_fat_16 = 0
sectors_per_fat(b) == IF is_fat32(b) THEN b.sectors_per_fat_32 ELSE b.sectors_per_fat_16
total_sectors(b) == IF b.total_sectors_16 = 0 THEN b.total_sectors_32 ELSE b.total_sectors_16
root_dir_sectors(b) ==
    (b.root_entries * DIR_ENTRY_SIZE + b.bytes_per_sector - 1) \div b.bytes_per_sector
sectors_per_all_fats(b) == b.fats * sectors_per_fat(b)
first_data_sector(b) == b.reserved_sectors + sectors_per_all_fats(b) + root_dir_sectors(b)
\* the division panics when sectors_per_cluster is 0: None
total_clusters(b) ==
    IF b.sectors_per_cluster = 0 THEN None
    ELSE (total_sectors(b) - first_data_sector(b)) \div b.sectors_per_cluster

\* u16::count_ones / u8::count_ones
RECURSIVE count_ones(_)
count_ones(v) == IF v = 0 THEN 0 ELSE (v % 2) + count_ones(v \div 2)

\* BiosParameterBlock::validate: "Ok", or the check that returned the error.
\* The warnings (cluster above 32 KiB, reserved_sectors, fats above 2, FAT too
\* small) return nothing.
BiosParameterBlock_validate(b) ==
    IF count_ones(b.bytes_per_sector) # 1 THEN "bytes_per_sector not power of two"
    ELSE IF b.bytes_per_sector < 512 THEN "bytes_per_sector < 512"
    ELSE IF b.bytes_per_sector > 4096 THEN "bytes_per_sector > 4096"
    ELSE IF count_ones(b.sectors_per_cluster) # 1 THEN "sectors_per_cluster not power of two"
    ELSE IF b.sectors_per_cluster < 1 THEN "sectors_per_cluster < 1"
    ELSE IF b.sectors_per_cluster > 128 THEN "sectors_per_cluster > 128"
    ELSE IF b.reserved_sectors < 1 THEN "reserved_sectors"
    ELSE IF b.fats = 0 THEN "fats"
    ELSE IF is_fat32(b) /\ b.root_entries # 0 THEN "root_entries"
    ELSE IF is_fat32(b) /\ b.total_sectors_16 # 0 THEN "total_sectors_16"
    ELSE IF (b.total_sectors_16 = 0) = (b.total_sectors_32 = 0) THEN "total_sectors"
    ELSE IF is_fat32(b) /\ b.sectors_per_fat_32 = 0 THEN "sectors_per_fat_32"
    ELSE IF b.fs_version # 0 THEN "fs_version"
    ELSE IF total_sectors(b) <= first_data_sector(b) THEN "total_sectors too small"
    ELSE IF is_fat32(b) # (from_clusters(total_clusters(b)) = 32) THEN "FAT32 determination"
    ELSE "Ok"

Zeros(n) == [i \in 1 .. n |-> 0]

\* BiosParameterBlock::serialize: 79 bytes on FAT32, 51 otherwise
BiosParameterBlock_serialize(b) ==
    u16_bytes(b.bytes_per_sector) \o <<b.sectors_per_cluster>> \o
    u16_bytes(b.reserved_sectors) \o <<b.fats>> \o u16_bytes(b.root_entries) \o
    u16_bytes(b.total_sectors_16) \o <<b.media>> \o u16_bytes(b.sectors_per_fat_16) \o
    u16_bytes(b.sectors_per_track) \o u16_bytes(b.heads) \o u32_bytes(b.hidden_sectors) \o
    u32_bytes(b.total_sectors_32) \o
    (IF is_fat32(b)
     THEN u32_bytes(b.sectors_per_fat_32) \o u16_bytes(b.extended_flags) \o
          u16_bytes(b.fs_version) \o u32_bytes(b.root_dir_first_cluster) \o
          u16_bytes(b.fs_info_sector) \o u16_bytes(b.backup_boot_sector) \o b.reserved_0
     ELSE <<>>) \o
    <<b.drive_num, b.reserved_1, b.ext_sig>> \o u32_bytes(b.volume_id) \o
    b.volume_label \o b.fs_type_label

\* BiosParameterBlock::deserialize from the reader f at position p.  The
\* FAT32 fields are read when sectors_per_fat_16 is 0 and are Default (zero)
\* otherwise; the fields after ext_sig are cleared unless ext_sig is 0x29.
BiosParameterBlock_deserialize(f, p) ==
    LET u8(o) == f[p + o]
        u16(o) == f[p + o] + 256 * f[p + o + 1]
        u32(o) == f[p + o] + 256 * f[p + o + 1] + 65536 * f[p + o + 2] + 16777216 * f[p + o + 3]
        arr(o, n) == [i \in 1 .. n |-> f[p + o + i - 1]]
        fat32 == u16(11) = 0
        \* the offset of drive_num
        t == IF fat32 THEN 53 ELSE 25
        signed == u8(t + 2) = 41
    IN  [bytes_per_sector |-> u16(0),
         sectors_per_cluster |-> u8(2),
         reserved_sectors |-> u16(3),
         fats |-> u8(5),
         root_entries |-> u16(6),
         total_sectors_16 |-> u16(8),
         media |-> u8(10),
         sectors_per_fat_16 |-> u16(11),
         sectors_per_track |-> u16(13),
         heads |-> u16(15),
         hidden_sectors |-> u32(17),
         total_sectors_32 |-> u32(21),
         sectors_per_fat_32 |-> IF fat32 THEN u32(25) ELSE 0,
         extended_flags |-> IF fat32 THEN u16(29) ELSE 0,
         fs_version |-> IF fat32 THEN u16(31) ELSE 0,
         root_dir_first_cluster |-> IF fat32 THEN u32(33) ELSE 0,
         fs_info_sector |-> IF fat32 THEN u16(37) ELSE 0,
         backup_boot_sector |-> IF fat32 THEN u16(39) ELSE 0,
         reserved_0 |-> IF fat32 THEN arr(41, 12) ELSE Zeros(12),
         drive_num |-> u8(t),
         reserved_1 |-> u8(t + 1),
         ext_sig |-> u8(t + 2),
         volume_id |-> IF signed THEN u32(t + 3) ELSE 0,
         volume_label |-> IF signed THEN arr(t + 7, 11) ELSE Zeros(11),
         fs_type_label |-> IF signed THEN arr(t + 18, 8) ELSE Zeros(8)]

\* BootRecord::serialize: the 512 bytes of the boot sector
BootRecord_serialize(boot) ==
    boot.bootjmp \o boot.oem_name \o BiosParameterBlock_serialize(boot.bpb) \o
    SubSeq(boot.boot_code, 1, IF is_fat32(boot.bpb) THEN 420 ELSE 448) \o boot.boot_sig

\* BootRecord::deserialize from the start of the device.  boot_code keeps its
\* Default zeros after the 420 bytes read on FAT32.
BootRecord_deserialize(f) ==
    LET b == BiosParameterBlock_deserialize(f, 11)
        code == IF is_fat32(b) THEN 90 ELSE 62
    IN  [bootjmp |-> <<f[0], f[1], f[2]>>,
         oem_name |-> [i \in 1 .. 8 |-> f[2 + i]],
         bpb |-> b,
         boot_code |-> [i \in 1 .. 448 |-> IF code + i - 1 < 510 THEN f[code + i - 1] ELSE 0],
         boot_sig |-> <<f[510], f[511]>>]

\* BootRecord::validate without the check of the signature
BootRecord_validate_unsigned(boot) == BiosParameterBlock_validate(boot.bpb)

\* BootRecord::validate
BootRecord_validate(boot) ==
    IF boot.boot_sig # <<85, 170>> THEN "boot_sig"
    ELSE BiosParameterBlock_validate(boot.bpb)

----------------------------------------------------------------------------
\* FileSystem::new and unmount on a raw device

\* FsInfoSector::serialize: the 512 bytes
FsInfoSector_bytes(fi) ==
    LET word(v) == IF v = None THEN <<255, 255, 255, 255>> ELSE u32_bytes(v)
        sector == FsInfo_serialize(fi)
    IN  sector.lead_sig \o Zeros(480) \o sector.struc_sig \o word(sector.free) \o
        word(sector.next) \o Zeros(12) \o sector.trail_sig

\* The FSInfo sector at device offset p, as FsInfo_serialize lays it out
FsInfoSector_at(f, p) ==
    LET arr(o, n) == [i \in 1 .. n |-> f[p + o + i - 1]]
        word(o) == IF arr(o, 4) = <<255, 255, 255, 255>> THEN None
                   ELSE f[p + o] + 256 * f[p + o + 1] + 65536 * f[p + o + 2]
                        + 16777216 * f[p + o + 3]
    IN  [lead_sig |-> arr(0, 4),
         reserved |-> IF arr(4, 480) = Zeros(480) THEN 0 ELSE 1,
         struc_sig |-> arr(484, 4),
         free |-> word(488),
         next |-> word(492),
         reserved2 |-> IF arr(496, 12) = Zeros(12) THEN 0 ELSE 1,
         trail_sig |-> arr(508, 4)]

\* The signature checks of FsInfoSector::deserialize
FsInfoSector_signed(f, p) ==
    /\ [i \in 1 .. 4 |-> f[p + i - 1]] = u32_bytes(1096897106)
    /\ [i \in 1 .. 4 |-> f[p + 483 + i]] = u32_bytes(1631679090)
    /\ [i \in 1 .. 4 |-> f[p + 507 + i]] = <<0, 0, 85, 170>>

\* FileSystem::new: [res, bpb, fat_type, fs_info]
FileSystem_new(d) ==
    LET f == disk_bytes(d)
        made(boot, valid) ==
            LET b == boot.bpb
                fat_type == from_clusters(total_clusters(b))
                p == b.fs_info_sector * b.bytes_per_sector
                fi0 == IF fat_type = 32 THEN FsInfo_deserialize(FsInfoSector_at(f, p))
                       ELSE FsInfoDefault
                fi1 == IF FlagsDecode(b.reserved_1).dirty THEN [fi0 EXCEPT !.free = None]
                       ELSE fi0
            IN  IF valid # "Ok"
                THEN [res |-> valid, bpb |-> NoBpb, fat_type |-> 0, fs_info |-> FsInfoDefault]
                ELSE IF fat_type = 32 /\ ~FsInfoSector_signed(f, p)
                THEN [res |-> "fs_info", bpb |-> NoBpb, fat_type |-> 0,
                      fs_info |-> FsInfoDefault]
                ELSE [res |-> "Ok", bpb |-> b, fat_type |-> fat_type,
                      fs_info |-> validate_and_fix(fi1, total_clusters(b))]
        read(boot) == made(boot, BootRecord_validate(boot))
    IN  read(BootRecord_deserialize(f))

\* FileSystem::new on the device
MountDevice ==
    /\ ~mounted
    /\ \E r \in {FileSystem_new(dev)} :
          /\ mounted' = (r.res = "Ok")
          /\ bpb' = r.bpb
          /\ fatType' = r.fat_type
          /\ fsInfo' = r.fs_info
          /\ extFlags' = IF r.res = "Ok" THEN r.bpb.extended_flags ELSE 0
          /\ bpbStatus' = IF r.res = "Ok" THEN r.bpb.reserved_1 ELSE 0
          /\ curFlags' = IF r.res = "Ok" THEN FlagsEncode(FlagsDecode(r.bpb.reserved_1)) ELSE 0
          /\ hist' = [hist EXCEPT !.op = "mount", !.res = r.res]
    /\ UNCHANGED <<gen, dev, fat, mountFat, diskStatus, diskFsInfo, devTrace, dirents, data,
                   files>>

\* Boot sectors of a device that was not made by the formatter: the fields
\* validate reads, around their limits
BootGeometries ==
    {<<16, 40, 0, 1, 0>>, <<16, 5000, 0, 20, 0>>, <<0, 0, 70000, 0, 600>>,
     <<16, 0, 70000, 0, 600>>, <<0, 40, 0, 0, 600>>, <<16, 0, 0, 1, 0>>,
     <<16, 40, 70000, 1, 0>>, <<0, 0, 70000, 0, 0>>, <<16, 3, 0, 1, 0>>,
     <<16, 0, 70000, 20, 0>>, <<0, 0, 5000, 0, 20>>}

BootSectors ==
    {[bootjmp |-> <<235, 88, 144>>,
      oem_name |-> <<77, 83, 87, 73, 78, 52, 46, 49>>,
      bpb |-> [bytes_per_sector |-> bps, sectors_per_cluster |-> spc,
               reserved_sectors |-> rs, fats |-> nf, root_entries |-> g[1],
               total_sectors_16 |-> g[2], media |-> 248, sectors_per_fat_16 |-> g[4],
               sectors_per_track |-> 32, heads |-> 64, hidden_sectors |-> 0,
               total_sectors_32 |-> g[3], sectors_per_fat_32 |-> g[5],
               extended_flags |-> 0, fs_version |-> ver, root_dir_first_cluster |-> 2,
               fs_info_sector |-> 1, backup_boot_sector |-> 6, reserved_0 |-> Zeros(12),
               drive_num |-> 128, reserved_1 |-> 0, ext_sig |-> 41, volume_id |-> 305419896,
               volume_label |-> <<78, 79, 32, 78, 65, 77, 69, 32, 32, 32, 32>>,
               fs_type_label |-> <<70, 65, 84, 32, 32, 32, 32, 32>>],
      boot_code |-> Zeros(448),
      boot_sig |-> sig] :
        bps \in {256, 512, 768, 4096, 8192}, spc \in {0, 1, 3, 16},
        rs \in {0, 1, 4}, nf \in {0, 1, 3}, g \in BootGeometries, ver \in {0, 1},
        sig \in {<<85, 170>>, <<170, 85>>}}

InitBoot ==
    /\ gen = NoGen
    /\ \E boot \in BootSectors, fs_info \in BOOLEAN :
          dev = LET d0 == [NoDev EXCEPT !.fill = 90]
                    d1 == IF fs_info
                          THEN disk_write(d0, boot.bpb.fs_info_sector * boot.bpb.bytes_per_sector,
                                          FsInfoSector_bytes(FsInfoDefault))
                          ELSE d0
                IN  disk_write(d1, 0, BootRecord_serialize(boot))
    /\ bpb = NoBpb
    /\ fatType = 0
    /\ extFlags = 0
    /\ fat = <<>>
    /\ mountFat = <<>>
    /\ diskStatus = 0
    /\ bpbStatus = 0
    /\ curFlags = 0
    /\ diskFsInfo = FsInfo_serialize(FsInfoDefault)
    /\ fsInfo = FsInfoDefault
    /\ mounted = FALSE
    /\ devTrace = <<>>
    /\ hist = [op |-> "new", arg |-> None, res |-> "", formatted |-> 0, was |-> NoBpb]
    /\ NoFiles

SpecBoot == InitBoot /\ [][MountDevice]_vars

\* C15: FileSystem::new succeeds only if the boot sector ends with 0x55 0xAA
\* and the BPB has bytes_per_sector a power of two in [512, 4096],
\* sectors_per_cluster a power of two in [1, 128], reserved_sectors >= 1,
\* fats >= 1, fs_version = 0, total_sectors > first_data_sector and a variant
\* by total_clusters that is FAT32 exactly when sectors_per_fat_16 is 0; and
\* a boot sector that passes these and the checks of the remaining fields
\* mounts, whatever its fats, reserved_sectors and cluster size.
C15_MountChecks ==
    hist.op = "mount" =>
        LET f == disk_bytes(dev)
            b == BootRecord_deserialize(f).bpb
            spf == IF b.sectors_per_fat_16 = 0 THEN b.sectors_per_fat_32
                   ELSE b.sectors_per_fat_16
            total == IF b.total_sectors_16 = 0 THEN b.total_sectors_32 ELSE b.total_sectors_16
            first_data == b.reserved_sectors + b.fats * spf
                          + (b.root_entries * 32 + b.bytes_per_sector - 1) \div b.bytes_per_sector
            clusters == (total - first_data) \div b.sectors_per_cluster
            variant == IF clusters < 4085 THEN 12 ELSE IF clusters < 65525 THEN 16 ELSE 32
            listed == /\ f[510] = 85 /\ f[511] = 170
                      /\ b.bytes_per_sector \in {512, 1024, 2048, 4096}
                      /\ b.sectors_per_cluster \in {1, 2, 4, 8, 16, 32, 64, 128}
                      /\ b.reserved_sectors >= 1
                      /\ b.fats >= 1
                      /\ b.fs_version = 0
                      /\ total > first_data
                      /\ (variant = 32) = (b.sectors_per_fat_16 = 0)
            others == /\ (b.total_sectors_16 = 0) # (b.total_sectors_32 = 0)
                      /\ b.sectors_per_fat_16 = 0 =>
                            /\ b.root_entries = 0
                            /\ b.total_sectors_16 = 0
                            /\ b.sectors_per_fat_32 # 0
                            /\ FsInfoSector_signed(f, b.fs_info_sector * b.bytes_per_sector)
        IN  /\ hist.res = "Ok" => listed
            /\ (listed /\ others) => hist.res = "Ok"

\* A FAT12 volume with three FATs, four reserved sectors and clusters of
\* 64 KiB has been mounted
C15_Witness ==
    /\ hist.op = "mount"
    /\ hist.res = "Ok"
    /\ mounted
    /\ fatType = 12
    /\ bpb.fats = 3
    /\ bpb.reserved_sectors = 4
    /\ bpb.bytes_per_sector * bpb.sectors_per_cluster = 65536

----------------------------------------------------------------------------
\* The formatter (fs.rs).  total_bytes is counted in blocks of 512 bytes:
\* bytes_per_sector is a multiple of 512 in the model, so every volume size
\* is a whole number of blocks, and the sizes the tables compare with are
\* too.  Cluster sizes are in bytes.

\* KB, in bytes
KB == 1024
\* MB and GB, in blocks of 512 bytes
MB == (KB * 1024) \div 512
GB == MB * 1024
MAX_CLUSTER_SIZE == 32 * KB

Max(a, b) == IF a > b THEN a ELSE b

\* u64::next_power_of_two, u32::is_power_of_two
RECURSIVE next_power_of_two_from(_, _)
next_power_of_two_from(p, n) == IF p >= n THEN p ELSE next_power_of_two_from(2 * p, n)
next_power_of_two(n) == next_power_of_two_from(1, n)
is_power_of_two(n) == n > 0 /\ next_power_of_two(n) = n

determine_fat_type(total_bytes) ==
    IF total_bytes < 4 * MB THEN 12
    ELSE IF total_bytes < 512 * MB THEN 16
    ELSE 32

\* determine_bytes_per_cluster: the value of the size table, before clamping
table_bytes_per_cluster(total_bytes, fat_type) ==
    CASE fat_type = 12 -> (next_power_of_two(total_bytes) \div MB) * 512
      [] fat_type = 16 ->
            IF total_bytes <= 16 * MB THEN 1 * KB
            ELSE IF total_bytes <= 128 * MB THEN 2 * KB
            ELSE (next_power_of_two(total_bytes) \div (64 * MB)) * KB
      [] fat_type = 32 ->
            IF total_bytes <= 260 * MB THEN 512
            ELSE IF total_bytes <= 8 * GB THEN 4 * KB
            ELSE (next_power_of_two(total_bytes) \div (2 * GB)) * KB

\* determine_bytes_per_cluster: None when the debug assertion fails in a build
\* with debug assertions
determine_bytes_per_cluster(total_bytes, fat_type, bytes_per_sector, debug_assertions) ==
    LET clamped(bytes_per_cluster) ==
            IF debug_assertions /\ ~is_power_of_two(bytes_per_cluster) THEN None
            ELSE Min(Max(bytes_per_cluster, bytes_per_sector), MAX_CLUSTER_SIZE)
    IN  clamped(table_bytes_per_cluster(total_bytes, fat_type))

determine_sectors_per_fat(total_sectors_, reserved_sectors, fats, root_dir_sectors_, sectors_per_cluster, fat_type) ==
    LET tmp_val1 == total_sectors_ - (reserved_sectors + root_dir_sectors_)
        tmp_val2 == IF fat_type = 32 THEN (256 * sectors_per_cluster + fats) \div 2
                    ELSE IF fat_type = 12 THEN ((256 * sectors_per_cluster + fats) \div 3) * 4
                    ELSE 256 * sectors_per_cluster + fats
    IN  (tmp_val1 + (tmp_val2 - 1)) \div tmp_val2

\* Option::unwrap_or
unwrap_or(o, v) == IF o = None THEN v ELSE o

FsTypeLabel(fat_type) ==
    <<70, 65, 84, IF fat_type = 32 THEN 51 ELSE 49,
      IF fat_type = 12 THEN 50 ELSE IF fat_type = 16 THEN 54 ELSE 50, 32, 32, 32>>

\* format_bpb: [res, bpb, fat_type].  res is "Panic" when the debug assertion
\* of determine_bytes_per_cluster fails or sectors_per_cluster is 0 (the
\* division in total_clusters).  A volume_label of <<>> is None.
format_bpb(options, debug_assertions) ==
    LET bytes_per_sector == unwrap_or(options.bytes_per_sector, 512)
        total_bytes == options.total_sectors * (bytes_per_sector \div 512)
        fat_type == unwrap_or(options.fat_type, determine_fat_type(total_bytes))
        bytes_per_cluster ==
            unwrap_or(options.bytes_per_cluster,
                      determine_bytes_per_cluster(total_bytes, fat_type, bytes_per_sector,
                                                  debug_assertions))
        sectors_per_cluster == (bytes_per_cluster \div bytes_per_sector) % 256
        reserved_sectors == IF fat_type = 32 THEN 4 ELSE 1
        fats == 2
        root_entries == IF fat_type = 32 THEN 0 ELSE unwrap_or(options.root_entries, 512)
        root_dir_sectors_ == (root_entries * DIR_ENTRY_SIZE + bytes_per_sector - 1)
                             \div bytes_per_sector
        sectors_per_fat_ == determine_sectors_per_fat(options.total_sectors, reserved_sectors,
                                fats, root_dir_sectors_, sectors_per_cluster, fat_type)
        b == [bytes_per_sector |-> bytes_per_sector,
              sectors_per_cluster |-> sectors_per_cluster,
              reserved_sectors |-> reserved_sectors,
              fats |-> fats,
              root_entries |-> root_entries,
              total_sectors_16 |-> IF options.total_sectors < 65536
                                   THEN options.total_sectors ELSE 0,
              media |-> unwrap_or(options.media, 248),
              sectors_per_fat_16 |-> IF fat_type = 32 THEN 0 ELSE sectors_per_fat_ % 65536,
              sectors_per_track |-> unwrap_or(options.sectors_per_track, 32),
              heads |-> unwrap_or(options.heads, 64),
              hidden_sectors |-> 0,
              total_sectors_32 |-> IF options.total_sectors >= 65536
                                   THEN options.total_sectors ELSE 0,
              sectors_per_fat_32 |-> IF fat_type = 32 THEN sectors_per_fat_ ELSE 0,
              extended_flags |-> 0,
              fs_version |-> 0,
              root_dir_first_cluster |-> IF fat_type = 32 THEN 2 ELSE 0,
              fs_info_sector |-> IF fat_type = 32 THEN 1 ELSE 0,
              backup_boot_sector |-> IF fat_type = 32 THEN 6 ELSE 0,
              reserved_0 |-> Zeros(12),
              drive_num |-> unwrap_or(options.drive_num, IF fat_type = 12 THEN 0 ELSE 128),
              reserved_1 |-> 0,
              ext_sig |-> 41,
              volume_id |-> unwrap_or(options.volume_id, 305419896),
              volume_label |-> IF options.volume_label # <<>> THEN options.volume_label
                               ELSE <<78, 79, 32, 78, 65, 77, 69, 32, 32, 32, 32>>,
              fs_type_label |-> FsTypeLabel(fat_type)]
        failed(res) == [res |-> res, bpb |-> NoBpb, fat_type |-> fat_type]
    IN  IF bytes_per_cluster = None THEN failed("Panic")
        ELSE IF options.total_sectors <= reserved_sectors + root_dir_sectors_ + 16
        THEN failed("Volume is too small")
        ELSE IF sectors_per_cluster = 0 THEN failed("Panic")
        ELSE IF from_clusters(total_clusters(b)) # fat_type
        THEN failed("Total number of clusters and FAT type does not match")
        ELSE [res |-> "Ok", bpb |-> b, fat_type |-> fat_type]

\* The boot code of format_boot_sector, and the rest of boot_code
BootCode ==
    <<14, 31, 190, 119, 124, 172, 34, 192, 116, 11, 86, 180, 14, 187, 7, 0,
      205, 16, 94, 235, 240, 50, 228, 205, 22, 205, 25, 235, 254, 84, 104, 105,
      115, 32, 105, 115, 32, 110, 111, 116, 32, 97, 32, 98, 111, 111, 116, 97,
      98, 108, 101, 32, 100, 105, 115, 107, 46, 32, 32, 80, 108, 101, 97, 115,
      101, 32, 105, 110, 115, 101, 114, 116, 32, 97, 32, 98, 111, 111, 116, 97,
      98, 108, 101, 32, 102, 108, 111, 112, 112, 121, 32, 97, 110, 100, 13, 10,
      112, 114, 101, 115, 115, 32, 97, 110, 121, 32, 107, 101, 121, 32, 116, 111,
      32, 116, 114, 121, 32, 97, 103, 97, 105, 110, 32, 46, 46, 46, 32, 13,
      10>> \o Zeros(319)

\* format_boot_sector: [res, boot, fat_type]
format_boot_sector(options, debug_assertions) ==
    LET made(r) ==
            LET message_offset_in_sector == 54 + 8 + 29 + 31744
            IN  [res |-> r.res,
                 fat_type |-> r.fat_type,
                 boot |-> [bootjmp |-> IF r.fat_type # 32 THEN <<235, 54 + 8 - 2, 144>>
                                       ELSE <<235, 88, 144>>,
                           oem_name |-> <<77, 83, 87, 73, 78, 52, 46, 49>>,
                           bpb |-> r.bpb,
                           boot_code |-> IF r.fat_type # 32
                                         THEN [BootCode EXCEPT
                                                  ![4] = message_offset_in_sector % 256,
                                                  ![5] = message_offset_in_sector \div 256]
                                         ELSE BootCode,
                           boot_sig |-> <<85, 170>>]]
    IN  made(format_bpb(options, debug_assertions))

\* write_zeros_until_end_of_sector with the device at offset pos
write_zeros_until_end_of_sector(d, pos, bytes_per_sector) ==
    LET total_bytes_to_write == bytes_per_sector - (pos % bytes_per_sector)
    IN  IF total_bytes_to_write # bytes_per_sector
        THEN write_zeros(d, pos, total_bytes_to_write)
        ELSE d

\* fat_slice (fs.rs) of a BPB: DiskSlice::from_sectors over the device
bpb_fat_slice(b) ==
    IF mirroring_enabled(b.extended_flags)
    THEN [begin |-> b.reserved_sectors * b.bytes_per_sector,
          size |-> sectors_per_fat(b) * b.bytes_per_sector,
          mirrors |-> b.fats]
    ELSE [begin |-> (b.reserved_sectors + active_fat(b.extended_flags) * sectors_per_fat(b))
                    * b.bytes_per_sector,
          size |-> sectors_per_fat(b) * b.bytes_per_sector,
          mirrors |-> 1]

\* format_fat: entries 0 and 1 hold the media byte under ones and the
\* end-of-chain mark with the clean flags
format_fat(m, s, fat_type, media) ==
    DiskSlice_write(m, s, 0,
        CASE fat_type = 12 -> <<media, 255, 255>>
          [] fat_type = 16 -> <<media, 255>> \o u16_bytes(EocRaw(16))
          [] fat_type = 32 -> <<media, 255, 255, 15>> \o u32_bytes(EocRaw(32)))

\* format_volume on the device d, which is at offset 0: [res, disk], and the
\* FAT type format_boot_sector returned
format_volume(d, options, debug_assertions) ==
    LET formatted(boot, fat_type) ==
            LET b == boot.bpb
                bytes_per_sector == b.bytes_per_sector
                d1 == write_zeros_until_end_of_sector(
                          disk_write(d, 0, BootRecord_serialize(boot)), 512, bytes_per_sector)
                fs_info_pos == b.fs_info_sector * bytes_per_sector
                backup_pos == b.backup_boot_sector * bytes_per_sector
                d2 == write_zeros_until_end_of_sector(
                          disk_write(d1, fs_info_pos, FsInfoSector_bytes(FsInfoDefault)),
                          fs_info_pos + 512, bytes_per_sector)
                d3 == write_zeros_until_end_of_sector(
                          disk_write(d2, backup_pos, BootRecord_serialize(boot)),
                          backup_pos + 512, bytes_per_sector)
                d4 == IF is_fat32(b) THEN d3 ELSE d1
                \* FATs
                sectors_per_fat_ == sectors_per_fat(b)
                bytes_per_fat == sectors_per_fat_ * bytes_per_sector
                reserved_sectors == b.reserved_sectors
                fat_pos == reserved_sectors * bytes_per_sector
                d5 == write_zeros(d4, fat_pos, bytes_per_fat * b.fats)
                m6 == format_fat(RawDisk(d5), bpb_fat_slice(b), fat_type, b.media)
                \* Root directory
                root_dir_pos == fat_pos + bytes_per_fat * b.fats
                root_dir_sectors_ == root_dir_sectors(b)
                d7 == write_zeros(m6.disk, root_dir_pos, root_dir_sectors_ * bytes_per_sector)
                rooted(alloc) ==
                    LET first_data_sector_ == reserved_sectors + sectors_per_fat_
                                              + root_dir_sectors_
                        root_dir_first_sector ==
                            (alloc.cluster - RESERVED_FAT_ENTRIES) * b.sectors_per_cluster
                            + first_data_sector_
                    IN  IF alloc.cluster # b.root_dir_first_cluster
                        THEN [res |-> "Panic", disk |-> alloc.m.disk, fat_type |-> fat_type]
                        ELSE [res |-> "Ok",
                              disk |-> write_zeros(alloc.m.disk,
                                                   root_dir_first_sector * bytes_per_sector,
                                                   b.sectors_per_cluster * bytes_per_sector),
                              fat_type |-> fat_type]
            IN  IF fat_type = 32
                THEN rooted(alloc_cluster(RawDisk(d7), bpb_fat_slice(b), fat_type, None, None, 1))
                ELSE [res |-> "Ok", disk |-> d7, fat_type |-> fat_type]
        started(r) == IF r.res # "Ok" THEN [res |-> r.res, disk |-> d, fat_type |-> r.fat_type]
                      ELSE formatted(r.boot, r.fat_type)
    IN  started(format_boot_sector(options, debug_assertions))

\* SpecFormat: a device is formatted, mounted, unmounted and mounted again.
\* hist keeps the options in arg, the FAT type of a successful format in
\* formatted, and the BPB and FAT type of the last unmounted FileSystem in was.

\* FormatOptions: None is Option::None, and <<>> for the label
FormatOptionsSet ==
    {[bytes_per_sector |-> bps, total_sectors |-> ts, bytes_per_cluster |-> bpc,
      fat_type |-> ft, root_entries |-> re, media |-> None, sectors_per_track |-> None,
      heads |-> None, drive_num |-> None, volume_id |-> id[1], volume_label |-> id[2]] :
        bps \in {None, 1536, 4096}, ts \in {40, 1000, 2048, 16384, 70000, 1048576},
        bpc \in {None, 512, 1536}, ft \in {None} \cup FatTypes, re \in {None, 16},
        id \in {<<None, <<>> >>, <<1, <<84, 69, 83, 84, 32, 32, 32, 32, 32, 32, 32>> >>}}

\* Prior contents of a device: the byte it holds everywhere
Fills == {0, 90}

InitFormat ==
    /\ gen = NoGen
    /\ \E fill \in Fills : dev = [NoDev EXCEPT !.fill = fill]
    /\ bpb = NoBpb
    /\ fatType = 0
    /\ extFlags = 0
    /\ fat = <<>>
    /\ mountFat = <<>>
    /\ diskStatus = 0
    /\ bpbStatus = 0
    /\ curFlags = 0
    /\ diskFsInfo = FsInfo_serialize(FsInfoDefault)
    /\ fsInfo = FsInfoDefault
    /\ mounted = FALSE
    /\ devTrace = <<>>
    /\ \E options \in FormatOptionsSet :
          hist = [op |-> "new", arg |-> options, res |-> "", formatted |-> 0, was |-> NoBpb]
    /\ NoFiles

\* format_volume, in a build with or without debug assertions
Format ==
    /\ hist.op = "new"
    /\ \E debug_assertions \in BOOLEAN :
          \E r \in {format_volume(dev, hist.arg, debug_assertions)} :
              /\ dev' = r.disk
              /\ hist' = [hist EXCEPT !.op = "format", !.res = r.res,
                                      !.formatted = IF r.res = "Ok" THEN r.fat_type ELSE 0]
    /\ UNCHANGED <<gen, bpb, fatType, extFlags, fat, mountFat, diskStatus, bpbStatus, curFlags,
                   fsInfo, diskFsInfo, mounted, devTrace, dirents, data, files>>

\* FileSystem::unmount on the device: flush_fs_info, then set_dirty_flag(false)
UnmountDevice ==
    /\ mounted
    /\ LET d1 == IF fatType = 32 /\ fsInfo.dirty
                 THEN disk_write(dev, bpb.fs_info_sector * bpb.bytes_per_sector,
                                 FsInfoSector_bytes(fsInfo))
                 ELSE dev
           encoded == FlagsEncode(FlagsDecode(bpb.reserved_1))
       IN  dev' = IF encoded = curFlags THEN d1
                  ELSE disk_write(d1, IF fatType = 32 THEN 65 ELSE 37, <<encoded>>)
    /\ hist' = [hist EXCEPT !.op = "unmount", !.res = "Ok",
                            !.was = [bpb |-> bpb, fat_type |-> fatType]]
    /\ mounted' = FALSE
    /\ bpb' = NoBpb
    /\ fatType' = 0
    /\ fsInfo' = FsInfoDefault
    /\ curFlags' = 0
    /\ UNCHANGED <<gen, extFlags, fat, mountFat, diskStatus, bpbStatus, diskFsInfo, devTrace,
                   dirents, data, files>>

NextFormat == Format \/ MountDevice \/ UnmountDevice

SpecFormat == InitFormat /\ [][NextFormat]_vars

\* The geometry, volume id and labels of a BPB
Geometry(b) ==
    [bytes_per_sector |-> b.bytes_per_sector, sectors_per_cluster |-> b.sectors_per_cluster,
     reserved_sectors |-> b.reserved_sectors, fats |-> b.fats,
     sectors_per_fat |-> sectors_per_fat(b), total_sectors |-> total_sectors(b),
     root_entries |-> b.root_entries, total_clusters |-> total_clusters(b),
     volume_id |-> b.volume_id, volume_label |-> b.volume_label,
     fs_type_label |-> b.fs_type_label]

\* C16: after format_volume returned Ok, mounting the device succeeds with the
\* FAT type the formatter chose, and a mount after an unmount yields the
\* geometry, FAT type, volume id and labels of the mount before.
C16_FormatMountRoundTrip ==
    (hist.op = "mount" /\ hist.formatted # 0) =>
        /\ hist.res = "Ok"
        /\ fatType = hist.formatted
        /\ hist.was # NoBpb =>
              /\ Geometry(bpb) = Geometry(hist.was.bpb)
              /\ fatType = hist.was.fat_type

\* Every byte of the device in [from, to) is zero.  A first non-zero byte is
\* at from, or follows a zero byte: the end of a zeroed range or a written
\* byte.
AllZero(d, from, to) ==
    \A q \in ({from} \cup {z[2] : z \in d.zeros} \cup {o + 1 : o \in DOMAIN d.written}) :
        (from <= q /\ q < to) => disk_byte(d, q) = 0

\* C17: after format_volume returned Ok the status flags are clean, every FAT
\* copy holds the seeded entries 0 and 1, every data cluster entry is Free
\* except entry 2 of a FAT32 volume, which is end-of-chain in every copy, and
\* the root directory is empty: its region on FAT12/16, and on FAT32 cluster
\* 2, after all FAT copies, hold zeros only.
C17_FormattedVolume ==
    (hist.op = "format" /\ hist.res = "Ok") =>
        LET f == disk_bytes(dev)
            b == BootRecord_deserialize(f).bpb
            ft == hist.formatted
            bytes_per_fat == sectors_per_fat(b) * b.bytes_per_sector
            fat_pos == b.reserved_sectors * b.bytes_per_sector
            copy(k) == [begin |-> fat_pos + k * bytes_per_fat, size |-> bytes_per_fat,
                        mirrors |-> 1]
            raw(k, n) == CASE ft = 12 -> Fat12_get_raw(f, copy(k), n)
                           [] ft = 16 -> Fat16_get_raw(f, copy(k), n)
                           [] ft = 32 -> Fat32_get_raw(f, copy(k), n)
            first_free == IF ft = 32 THEN 3 ELSE 2
            entry_pos(k, n) == copy(k).begin + (n * ft) \div 8
            root_pos == (b.reserved_sectors + b.fats * sectors_per_fat(b)) * b.bytes_per_sector
        IN  /\ ~FlagsDecode(b.reserved_1).dirty
            /\ ~FlagsDecode(b.reserved_1).io_error
            /\ \A k \in 0 .. b.fats - 1 :
                  /\ read_fat_flags(f, copy(k), ft) = [dirty |-> FALSE, io_error |-> FALSE]
                  /\ raw(k, 0) = EocRaw(ft) - 255 + b.media
                  /\ raw(k, 1) = EocRaw(ft)
                  /\ ft = 32 => Fat32_get(f, copy(k), 2) = EndOfChain
                  /\ AllZero(dev, entry_pos(k, first_free),
                             copy(k).begin + ((total_clusters(b) + 2) * ft + 7) \div 8)
            /\ IF ft = 32
               THEN AllZero(dev, root_pos,
                            root_pos + b.sectors_per_cluster * b.bytes_per_sector)
               ELSE AllZero(dev, root_pos, root_pos + root_dir_sectors(b) * b.bytes_per_sector)

----------------------------------------------------------------------------
\* SpecCluster: determine_bytes_per_cluster on volume sizes around the powers
\* of two and the limits of the size tables

\* Volumes have up to 2^MaxSizePow + 1 sectors
MaxSizePow == 26

VolumeSectors ==
    UNION {{2 ^ k, 2 ^ k + 1} : k \in 0 .. MaxSizePow} \cup {260 * MB, 260 * MB + 1}

InitCluster ==
    /\ NoDevice
    /\ fatType \in FatTypes
    /\ extFlags = 0
    /\ fat = <<>>
    /\ mountFat = <<>>
    /\ diskStatus = 0
    /\ bpbStatus = 0
    /\ curFlags = 0
    /\ diskFsInfo = FsInfo_serialize(FsInfoDefault)
    /\ fsInfo = FsInfoDefault
    /\ mounted = FALSE
    /\ devTrace = <<>>
    /\ \E ts \in VolumeSectors, bps \in {512, 1024, 2048, 4096} :
          hist = [op |-> "new", arg |-> [total_sectors |-> ts, bytes_per_sector |-> bps],
                  res |-> None]
    /\ NoFiles

\* determine_bytes_per_cluster as format_bpb calls it: res holds the value of
\* the size table and the results with and without debug assertions
DetermineBytesPerCluster ==
    /\ hist.op = "new"
    /\ LET total_bytes == hist.arg.total_sectors * (hist.arg.bytes_per_sector \div 512)
       IN  hist' = [hist EXCEPT
                       !.op = "determine_bytes_per_cluster",
                       !.res = [table |-> table_bytes_per_cluster(total_bytes, fatType),
                                debug |-> determine_bytes_per_cluster(
                                              total_bytes, fatType, hist.arg.bytes_per_sector, TRUE),
                                release |-> determine_bytes_per_cluster(
                                                total_bytes, fatType, hist.arg.bytes_per_sector,
                                                FALSE)]]
    /\ UNCHANGED <<gen, dev, bpb, fatType, extFlags, fat, mountFat, diskStatus, bpbStatus, curFlags,
                   fsInfo, diskFsInfo, mounted, devTrace, dirents, data, files>>

SpecCluster == InitCluster /\ [][DetermineBytesPerCluster]_vars

\* C18: for every volume of at least one sector, every FAT type and every
\* bytes_per_sector in {512, 1024, 2048, 4096} the cluster size of the size
\* table is a power of two, so that the debug assertion holds, and the value
\* returned lies in [bytes_per_sector, 32 KiB].
C18_ClusterSize ==
    hist.op = "determine_bytes_per_cluster" =>
        /\ \E k \in 0 .. 30 : hist.res.table = 2 ^ k
        /\ hist.res.debug # None
        /\ hist.res.release >= hist.arg.bytes_per_sector
        /\ hist.res.release <= 32768

----------------------------------------------------------------------------
\* ShortNameGenerator (dir.rs).  A long name is the sequence of the code
\* points of its chars, a short name the sequence of its 11 bytes.

\* The code point of a char of the model
ord(c) ==
    CASE c = " " -> 32 [] c = "+" -> 43 [] c = "." -> 46 [] c = "0" -> 48
      [] c = "9" -> 57 [] c = "A" -> 65 [] c = "F" -> 70 [] c = "X" -> 88
      [] c = "Z" -> 90 [] c = "_" -> 95 [] c = "a" -> 97 [] c = "f" -> 102
      [] c = "z" -> 122 [] c = "~" -> 126

\* The chars copy_short_name_part copies: 'A'...'Z', 'a'...'z', '0'...'9' and
\* ! # $ % & ' ( ) - @ ^ _ ` { } ~
ShortNameChars ==
    (ord("A") .. ord("Z")) \cup (ord("a") .. ord("z")) \cup (ord("0") .. ord("9"))
        \cup {33, 35, 36, 37, 38, 39, 40, 41, 45, 64, 94, 95, 96, 123, 125, 126}

to_ascii_uppercase(c) == IF c \in ord("a") .. ord("z") THEN c - 32 ELSE c

\* to_digit counting the digits from one
to_digit_from_one(c) == IF c \in ord("0") .. ord("9") THEN c - ord("0") + 1 ELSE None

\* char::to_digit(10)
to_digit(c) == IF c \in ord("0") .. ord("9") THEN c - ord("0") ELSE None

\* char::from_digit(d, 16).to_ascii_uppercase()
from_digit_upper(d) == IF d < 10 THEN ord("0") + d ELSE ord("A") + (d - 10)

\* The loop of copy_short_name_part from the i-th char of src: dst is the
\* part of the buffer filled so far, dst_len the length of the buffer
RECURSIVE copy_short_name_part(_, _, _, _, _)
copy_short_name_part(dst_len, src, i, dst, lossy_conv) ==
    IF i > Len(src)
    THEN [dst |-> dst, fits |-> TRUE, lossy |-> lossy_conv]
    ELSE IF Len(dst) = dst_len
    THEN [dst |-> dst, fits |-> FALSE, lossy |-> lossy_conv]
    ELSE LET c == src[i]
         IN  IF c \in {ord(" "), ord(".")}
             THEN copy_short_name_part(dst_len, src, i + 1, dst, TRUE)
             ELSE LET fixed_c == IF c \in ShortNameChars THEN c ELSE ord("_")
                      upper == to_ascii_uppercase(fixed_c)
                  IN  copy_short_name_part(dst_len, src, i + 1, Append(dst, upper),
                                           lossy_conv \/ fixed_c # c)

\* The bytes of dst followed by the 0x20 the buffer was initialised with
padded(dst, dst_len) == dst \o [i \in 1 .. dst_len - Len(dst) |-> ord(" ")]

\* ShortNameGenerator::checksum: the u16 sum after the chars from the i-th,
\* and whether one of the additions left the range of u16
RECURSIVE checksum(_, _, _, _)
checksum(name, i, chksum, overflow) ==
    IF i > Len(name)
    THEN [chksum |-> chksum, overflow |-> overflow]
    ELSE LET sum == (chksum \div 2) + ((chksum % 2) * 32768) + (name[i] % 65536)
         IN  IF sum > 65535
             THEN checksum(name, i + 1, sum % 65536, TRUE)
             ELSE checksum(name, i + 1, sum, overflow)

\* str::rfind('.'), as an index from 1; 0 for None
rfind_dot(name) ==
    LET dots == {i \in 1 .. Len(name) : name[i] = ord(".")}
    IN  IF dots = {} THEN 0 ELSE CHOOSE i \in dots : \A j \in dots : j <= i

\* ShortNameGenerator::new.  The bitmaps are the sets of their one bits.  With
\* overflow checks an addition of checksum that overflows panics: NoGen
ShortNameGenerator_new(name, overflow_checks) ==
    LET index == rfind_dot(name)
        base == IF index > 0
                THEN copy_short_name_part(8, SubSeq(name, 1, index - 1), 1, <<>>, FALSE)
                ELSE copy_short_name_part(8, name, 1, <<>>, FALSE)
        ext == IF index > 0
               THEN copy_short_name_part(3, SubSeq(name, index + 1, Len(name)), 1, <<>>, FALSE)
               ELSE [dst |-> <<>>, fits |-> TRUE, lossy |-> FALSE]
        sum == checksum(name, 1, 0, FALSE)
    IN  IF overflow_checks /\ sum.overflow
        THEN NoGen
        ELSE [short_name |-> padded(base.dst, 8) \o padded(ext.dst, 3),
              chksum |-> sum.chksum,
              name_fits |-> base.fits /\ ext.fits,
              lossy_conv |-> base.lossy \/ ext.lossy,
              basename_len |-> Len(base.dst),
              long_prefix_bitmap |-> {},
              prefix_chksum_bitmap |-> {},
              exact_match |-> FALSE]

\* u16::from_str_radix(s, 16) of str::from_utf8 of four bytes: None for an
\* error of either
from_str_radix(s) ==
    LET digits == IF s[1] = ord("+") THEN Tail(s) ELSE s
        val(c) == IF c \in ord("0") .. ord("9") THEN c - ord("0")
                  ELSE IF c \in ord("A") .. ord("F") THEN c - ord("A") + 10
                  ELSE IF c \in ord("a") .. ord("f") THEN c - ord("a") + 10
                  ELSE None
        num[i \in 0 .. Len(digits)] == IF i = 0 THEN 0 ELSE num[i - 1] * 16 + val(digits[i])
    IN  IF \E i \in 1 .. Len(digits) : val(digits[i]) = None
        THEN None
        ELSE num[Len(digits)]

add_existing(g, short_name) ==
    LET ext_matches == SubSeq(short_name, 9, 11) = SubSeq(g.short_name, 9, 11)
        long_len == Min(g.basename_len, 6)
        long_num == IF short_name[long_len + 1] = ord("~")
                    THEN to_digit(short_name[long_len + 2])
                    ELSE None
        long_hit == /\ SubSeq(short_name, 1, long_len) = SubSeq(g.short_name, 1, long_len)
                    /\ long_num # None
                    /\ ext_matches
        prefix_len == Min(g.basename_len, 2)
        num_suffix == IF short_name[prefix_len + 5] = ord("~")
                      THEN to_digit(short_name[prefix_len + 6])
                      ELSE None
        chksum_hit == /\ SubSeq(short_name, 1, prefix_len) = SubSeq(g.short_name, 1, prefix_len)
                      /\ num_suffix # None
                      /\ ext_matches
                      /\ from_str_radix(SubSeq(short_name, prefix_len + 1, prefix_len + 4))
                             = g.chksum
    IN  [g EXCEPT
            !.exact_match = @ \/ short_name = g.short_name,
            !.long_prefix_bitmap = IF long_hit THEN @ \cup {long_num} ELSE @,
            !.prefix_chksum_bitmap = IF chksum_hit THEN @ \cup {num_suffix} ELSE @]

\* u16_to_u8_array without to_ascii_uppercase
u16_to_u8_array_lower(x) ==
    LET from_digit(d) == IF d < 10 THEN ord("0") + d ELSE ord("a") + (d - 10)
    IN  <<from_digit((x \div 4096) % 16), from_digit((x \div 256) % 16),
          from_digit((x \div 16) % 16), from_digit(x % 16)>>

u16_to_u8_array(x) ==
    <<from_digit_upper((x \div 4096) % 16), from_digit_upper((x \div 256) % 16),
      from_digit_upper((x \div 16) % 16), from_digit_upper(x % 16)>>

build_prefixed_name(g, num, with_chksum) ==
    LET head == IF with_chksum
                THEN SubSeq(g.short_name, 1, Min(g.basename_len, 2)) \o u16_to_u8_array(g.chksum)
                ELSE SubSeq(g.short_name, 1, Min(g.basename_len, 6))
    IN  padded(head \o <<ord("~"), ord("0") + num>>, 8) \o SubSeq(g.short_name, 9, 11)

\* The Err(AlreadyExists) of generate
AlreadyExists == <<>>

generate(g) ==
    IF ~g.lossy_conv /\ g.name_fits /\ ~g.exact_match
    THEN g.short_name
    ELSE IF \E i \in 1 .. 4 : i \notin g.long_prefix_bitmap
    THEN build_prefixed_name(g, CHOOSE i \in 1 .. 4 :
                                    /\ i \notin g.long_prefix_bitmap
                                    /\ \A j \in 1 .. i - 1 : j \in g.long_prefix_bitmap, FALSE)
    ELSE IF \E i \in 1 .. 9 : i \notin g.prefix_chksum_bitmap
    THEN build_prefixed_name(g, CHOOSE i \in 1 .. 9 :
                                    /\ i \notin g.prefix_chksum_bitmap
                                    /\ \A j \in 1 .. i - 1 : j \in g.prefix_chksum_bitmap, TRUE)
    ELSE AlreadyExists

----------------------------------------------------------------------------
\* SpecShortName: a generator is made for a long name, observes short names of
\* the directory in any order and is asked for a short name at any moment

\* "abcdefgh.i" fits 8.3, "a+b" is converted with a loss, "abcdefghi" does not
\* fit, and the checksum of two U+FF41 leaves the range of u16
LongNames ==
    {<<97, 98, 99, 100, 101, 102, 103, 104, 46, 105>>, <<97, 43, 98>>,
     <<97, 98, 99, 100, 101, 102, 103, 104, 105>>, <<65345, 65345>>}

\* A directory that holds names close to the numbered ones holds the first
\* MaxChk names with the checksum
MaxChk == 3

\* The short names a directory may hold beside the name being created: the 8.3
\* name, the numbered names, a numbered name followed by one more char and a
\* numbered name with its hex digits in lower case
ExistingNames(g) ==
    LET long == build_prefixed_name(g, 1, FALSE)
        chk == build_prefixed_name(g, 1, TRUE)
        at == Min(g.basename_len, 6) + 3
        hex == Min(g.basename_len, 2) + 1 .. Min(g.basename_len, 2) + 4
        lower == [i \in 1 .. 11 |->
                     IF i \in hex /\ chk[i] \in ord("A") .. ord("F") THEN chk[i] + 32 ELSE chk[i]]
        near == (IF at <= 8 THEN {[long EXCEPT ![at] = ord("X")]} ELSE {}) \cup ({lower} \ {chk})
    IN  {g.short_name}
            \cup {build_prefixed_name(g, k, FALSE) : k \in 1 .. 4}
            \cup {build_prefixed_name(g, k, TRUE) : k \in 1 .. (IF near = {} THEN 9 ELSE MaxChk)}
            \cup near

InitShortName ==
    /\ NoDevice
    /\ fatType = 12
    /\ extFlags = 0
    /\ fat = <<>>
    /\ mountFat = <<>>
    /\ diskStatus = 0
    /\ bpbStatus = 0
    /\ curFlags = 0
    /\ diskFsInfo = FsInfo_serialize(FsInfoDefault)
    /\ fsInfo = FsInfoDefault
    /\ mounted = FALSE
    /\ devTrace = <<>>
    /\ \E name \in LongNames :
          hist = [op |-> "init", arg |-> name, dir |-> {}, seen |-> {}, res |-> AlreadyExists]
    /\ NoFiles

shortNameFrame ==
    <<dev, bpb, fatType, extFlags, fat, mountFat, diskStatus, bpbStatus, curFlags, fsInfo,
      diskFsInfo, mounted, devTrace, dirents, data, files>>

\* ShortNameGenerator::new(name), in a build with or without overflow checks
NewGenerator ==
    /\ hist.op = "init"
    /\ \E overflow_checks \in BOOLEAN :
          \E g \in {ShortNameGenerator_new(hist.arg, overflow_checks)} :
              /\ gen' = g
              /\ hist' = [hist EXCEPT
                              !.op = IF g = NoGen THEN "panic" ELSE "new",
                              !.dir = IF g = NoGen THEN {} ELSE ExistingNames(g)]
    /\ UNCHANGED shortNameFrame

\* find_entry hands the raw short name of one more directory entry to the
\* generator
AddExisting ==
    /\ gen # NoGen
    /\ \E short_name \in hist.dir \ hist.seen :
          /\ gen' = add_existing(gen, short_name)
          /\ hist' = [hist EXCEPT !.op = "add_existing", !.seen = @ \cup {short_name},
                                  !.res = AlreadyExists]
    /\ UNCHANGED shortNameFrame

Generate ==
    /\ gen # NoGen
    /\ hist' = [hist EXCEPT !.op = "generate", !.res = generate(gen)]
    /\ UNCHANGED <<gen, shortNameFrame>>

NextShortName == NewGenerator \/ AddExisting \/ Generate

SpecShortName == InitShortName /\ [][NextShortName]_vars

\* C19: generate never returns a short name that was passed to add_existing:
\* it fails or returns a name outside the set of the observed names.
C19_GeneratedNameIsNew ==
    (hist.op = "generate" /\ hist.res # AlreadyExists) => hist.res \notin hist.seen

\* The 8.3 name, the four names with the long prefix and a name with the
\* checksum were observed, and generate returned a later name with the checksum
C19_Witness ==
    /\ hist.op = "generate"
    /\ hist.res # AlreadyExists
    /\ gen.short_name \in hist.seen
    /\ gen.long_prefix_bitmap = 1 .. 4
    /\ 1 \in gen.prefix_chksum_bitmap

\* The names of generate in the words of the claims.  RotateRight is the
\* 16-bit checksum that rotates right by one bit and adds the next char
RotateRight(name) ==
    LET sum[i \in 0 .. Len(name)] ==
            IF i = 0 THEN 0
            ELSE ((sum[i - 1] \div 2) + (sum[i - 1] % 2) * 32768 + name[i]) % 65536
    IN  sum[Len(name)]

RotateRightOverflows(name) ==
    \E i \in 1 .. Len(name) :
        LET before == RotateRight(SubSeq(name, 1, i - 1))
        IN  (before \div 2) + (before % 2) * 32768 + (name[i] % 65536) > 65535

UpperHex(x) ==
    [i \in 1 .. 4 |-> LET d == (x \div (16 ^ (4 - i))) % 16
                      IN  IF d < 10 THEN 48 + d ELSE 55 + d]

\* BASENA~k and BA<chk>~k with the extension of the 8.3 name
LongForm(g, k) ==
    padded(SubSeq(g.short_name, 1, Min(g.basename_len, 6)) \o <<126, 48 + k>>, 8)
        \o SubSeq(g.short_name, 9, 11)

ChecksumForm(name, g, k) ==
    padded(SubSeq(g.short_name, 1, Min(g.basename_len, 2)) \o UpperHex(RotateRight(name))
               \o <<126, 48 + k>>, 8)
        \o SubSeq(g.short_name, 9, 11)

\* The first of the fourteen names of the claim that is free, free(k) telling
\* whether the k-th numbered name is: k in 1 .. 4 is BASENA~k, k in 5 .. 13 is
\* BA<chk>~(k - 4)
FirstFree(name, g, seen, free(_)) ==
    IF g.name_fits /\ ~g.lossy_conv /\ g.short_name \notin seen
    THEN g.short_name
    ELSE IF \A k \in 1 .. 13 : ~free(k)
    THEN AlreadyExists
    ELSE LET k == CHOOSE i \in 1 .. 13 : free(i) /\ \A j \in 1 .. i - 1 : ~free(j)
         IN  IF k <= 4 THEN LongForm(g, k) ELSE ChecksumForm(name, g, k - 4)

TakesLong(g, n, k) ==
    LET len == Min(g.basename_len, 6)
    IN  /\ SubSeq(n, 9, 11) = SubSeq(g.short_name, 9, 11)
        /\ SubSeq(n, 1, len) = SubSeq(g.short_name, 1, len)
        /\ n[len + 1] = 126
        /\ n[len + 2] = 48 + k

\* It takes the number k of the checksum form when it has the extension and
\* the prefix of BA<chk>~k, '~' and the digit k after the four bytes that
\* follow the prefix, and these bytes are hex digits of either case, after an
\* optional '+', of the checksum
TakesChecksum(name, g, n, k) ==
    LET len == Min(g.basename_len, 2)
        field == SubSeq(n, len + 1, len + 4)
        digits == IF field[1] = 43 THEN Tail(field) ELSE field
        upper == [i \in 1 .. Len(digits) |->
                     IF digits[i] \in 97 .. 102 THEN digits[i] - 32 ELSE digits[i]]
        chk == UpperHex(RotateRight(name))
    IN  /\ SubSeq(n, 9, 11) = SubSeq(g.short_name, 9, 11)
        /\ SubSeq(n, 1, len) = SubSeq(g.short_name, 1, len)
        /\ n[len + 5] = 126
        /\ n[len + 6] = 48 + k
        /\ upper = SubSeq(chk, 5 - Len(digits), 4)
        /\ \A i \in 1 .. 4 - Len(digits) : chk[i] = 48

----------------------------------------------------------------------------
\* Date and Time (dir_entry.rs, and time.rs with the same bodies).  A Date is
\* [year, month, day], a Time [hour, min, sec, millis]; the fields are u16.

\* The variables of a volume when a specification is about values only
IdleVolume ==
    /\ NoDevice
    /\ fatType = 12
    /\ extFlags = 0
    /\ fat = <<>>
    /\ mountFat = <<>>
    /\ diskStatus = 0
    /\ bpbStatus = 0
    /\ curFlags = 0
    /\ diskFsInfo = FsInfo_serialize(FsInfoDefault)
    /\ fsInfo = FsInfoDefault
    /\ mounted = FALSE
    /\ devTrace = <<>>
    /\ NoFiles

idleFrame ==
    <<gen, dev, bpb, fatType, extFlags, fat, mountFat, diskStatus, bpbStatus, curFlags, fsInfo,
      diskFsInfo, mounted, devTrace, dirents, data, files>>

\* x << n and x >> n on u16
shl16(x, n) == (x * (2 ^ n)) % 65536
shr16(x, n) == x \div (2 ^ n)

Date_decode(dos_date) ==
    [year |-> shr16(dos_date, 9) + 1980, month |-> shr16(dos_date, 5) % 16,
     day |-> dos_date % 32]

\* The three terms of the | have no bit in common for the dates of the model
Date_encode(d) == shl16(d.year - 1980, 9) + shl16(d.month, 5) + d.day

Time_decode(dos_time, dos_time_hi_res) ==
    [hour |-> shr16(dos_time, 11),
     min |-> shr16(dos_time, 5) % 64,
     sec |-> (dos_time % 32) * 2 + dos_time_hi_res \div 2,
     millis |-> (dos_time_hi_res % 100) * 10]

\* <<dos_time, dos_time_hi_res>>, the latter cut to u8
Time_encode(t) ==
    <<shl16(t.hour, 11) + shl16(t.min, 5) + t.sec \div 2,
      ((t.millis \div 100) + (t.sec % 2) * 100) % 256>>

----------------------------------------------------------------------------
\* SpecTime: a date or a time is encoded and what was encoded is decoded

Dates == [year : {1980, 1981, 2000, 2107}, month : 1 .. 12, day : {1, 2, 16, 31}]

Times == [hour : {0, 1, 23}, min : {0, 1, 59}, sec : {0, 1, 2, 58, 59},
          millis : {0, 10, 90, 100, 500, 990}]

InitTime ==
    /\ IdleVolume
    /\ \E v \in Dates \cup Times : hist = [op |-> "new", arg |-> v, enc |-> <<>>, res |-> v]

EncodeDecodeDate ==
    /\ hist.op = "new"
    /\ hist.arg \in Dates
    /\ hist' = [hist EXCEPT !.op = "date",
                            !.enc = <<Date_encode(hist.arg)>>,
                            !.res = Date_decode(Date_encode(hist.arg))]
    /\ UNCHANGED idleFrame

EncodeDecodeTime ==
    /\ hist.op = "new"
    /\ hist.arg \in Times
    /\ \E e \in {Time_encode(hist.arg)} :
          hist' = [hist EXCEPT !.op = "time", !.enc = e, !.res = Time_decode(e[1], e[2])]
    /\ UNCHANGED idleFrame

NextTime == EncodeDecodeDate \/ EncodeDecodeTime

SpecTime == InitTime /\ [][NextTime]_vars

\* C23: decoding an encoded date gives the date, decoding an encoded time
\* gives the time, and the high-resolution byte of a time is within 0 .. 199
\* and carries the odd second and the hundredths of a second.
C23_DateTimeRoundTrip ==
    /\ hist.op = "date" => hist.res = hist.arg
    /\ hist.op = "time" =>
          /\ hist.res = hist.arg
          /\ hist.enc[2] \in 0 .. 199
          /\ hist.enc[2] = (hist.arg.sec % 2) * 100 + hist.arg.millis \div 10

----------------------------------------------------------------------------
\* Directory records (dir_entry.rs) and the iteration of a directory
\* (dir.rs).  A record on disk is its 32 bytes; a name is the sequence of its
\* code points.  The positions of a directory stream are counted in records.

LFN_PART_LEN == 13
LFN_ENTRY_LAST_FLAG == 64
DIR_ENTRY_DELETED_FLAG == 229
DIR_ENTRY_REALLY_E5_FLAG == 5
FileAttributes_VOLUME_ID == 8
FileAttributes_DIRECTORY == 16
FileAttributes_LFN == 15

\* FileAttributes::from_bits_truncate: the six known bits
from_bits_truncate(bits) == bits % 64

\* FileAttributes::contains for a single bit
contains(attrs, bit) == (attrs \div bit) % 2 = 1

\* DirFileEntryData::default
DirFileEntryData_default ==
    [kind |-> "File", name |-> [i \in 1 .. 11 |-> 0], attrs |-> 0, reserved_0 |-> 0,
     create_time_0 |-> 0, create_time_1 |-> 0, create_date |-> 0, access_date |-> 0,
     hi |-> 0, modify_time |-> 0, modify_date |-> 0, lo |-> 0, size |-> 0]

\* The 32 bytes of an unused record
ZeroRecord == [i \in 1 .. DIR_ENTRY_SIZE |-> 0]

\* DirFileEntryData::new
DirFileEntryData_new(name, attrs) ==
    [DirFileEntryData_default EXCEPT !.name = name, !.attrs = attrs]

\* DirLfnEntryData::new
DirLfnEntryData_new(order, chksum) ==
    [kind |-> "Lfn", order |-> order, name_0 |-> [i \in 1 .. 5 |-> 0],
     attrs |-> FileAttributes_LFN, entry_type |-> 0, checksum |-> chksum,
     name_1 |-> [i \in 1 .. 6 |-> 0], reserved_0 |-> 0, name_2 |-> [i \in 1 .. 2 |-> 0]]

\* The little-endian bytes of a sequence of u16
RECURSIVE u16s_bytes(_)
u16s_bytes(us) == IF us = <<>> THEN <<>> ELSE u16_bytes(Head(us)) \o u16s_bytes(Tail(us))

\* read_u16_into: n u16 from the bytes of raw that start at byte at
u16s_at(raw, at, n) == [i \in 1 .. n |-> raw[at + 2 * (i - 1)] + 256 * raw[at + 2 * (i - 1) + 1]]

\* DirFileEntryData::serialize
DirFileEntryData_serialize(d) ==
    d.name \o <<d.attrs, d.reserved_0, d.create_time_0>> \o u16_bytes(d.create_time_1)
        \o u16_bytes(d.create_date) \o u16_bytes(d.access_date) \o u16_bytes(d.hi)
        \o u16_bytes(d.modify_time) \o u16_bytes(d.modify_date) \o u16_bytes(d.lo)
        \o u32_bytes(d.size)

\* DirLfnEntryData::serialize
DirLfnEntryData_serialize(l) ==
    <<l.order>> \o u16s_bytes(l.name_0) \o <<l.attrs, l.entry_type, l.checksum>>
        \o u16s_bytes(l.name_1) \o u16_bytes(l.reserved_0) \o u16s_bytes(l.name_2)

\* DirEntryData::serialize
DirEntryData_serialize(e) ==
    IF e.kind = "File" THEN DirFileEntryData_serialize(e) ELSE DirLfnEntryData_serialize(e)

\* DirEntryData::deserialize of the 32 bytes of a record
DirEntryData_deserialize(raw) ==
    LET attrs == from_bits_truncate(raw[12])
    IN  IF attrs % (FileAttributes_LFN + 1) = FileAttributes_LFN
        THEN [kind |-> "Lfn", order |-> raw[1], name_0 |-> u16s_at(raw, 2, 5),
              attrs |-> attrs, entry_type |-> raw[13], checksum |-> raw[14],
              name_1 |-> u16s_at(raw, 15, 6), reserved_0 |-> u16s_at(raw, 27, 1)[1],
              name_2 |-> u16s_at(raw, 29, 2)]
        ELSE [kind |-> "File", name |-> SubSeq(raw, 1, 11), attrs |-> attrs,
              reserved_0 |-> raw[13], create_time_0 |-> raw[14],
              create_time_1 |-> u16s_at(raw, 15, 1)[1], create_date |-> u16s_at(raw, 17, 1)[1],
              access_date |-> u16s_at(raw, 19, 1)[1], hi |-> u16s_at(raw, 21, 1)[1],
              modify_time |-> u16s_at(raw, 23, 1)[1], modify_date |-> u16s_at(raw, 25, 1)[1],
              lo |-> u16s_at(raw, 27, 1)[1],
              size |-> raw[29] + 256 * raw[30] + 65536 * raw[31] + 16777216 * raw[32]]

\* DirEntryData::is_deleted, set_deleted and is_end (is_free and set_free in
\* dir.rs)
is_deleted(e) == (IF e.kind = "File" THEN e.name[1] ELSE e.order) = DIR_ENTRY_DELETED_FLAG
\* A marking that leaves the long-name records as they are
set_deleted_short_only(e) ==
    IF e.kind = "File" THEN [e EXCEPT !.name[1] = DIR_ENTRY_DELETED_FLAG] ELSE e
set_deleted(e) ==
    IF e.kind = "File" THEN [e EXCEPT !.name[1] = DIR_ENTRY_DELETED_FLAG]
    ELSE [e EXCEPT !.order = DIR_ENTRY_DELETED_FLAG]
is_end(e) == (IF e.kind = "File" THEN e.name[1] ELSE e.order) = 0

\* DirFileEntryData::is_volume, is_dir
is_volume(d) == contains(d.attrs, FileAttributes_VOLUME_ID)
is_dir(d) == contains(d.attrs, FileAttributes_DIRECTORY)

\* DirLfnEntryData::copy_name_from_slice and copy_name_to_slice
copy_name_from_slice(l, lfn_part) ==
    [l EXCEPT !.name_0 = SubSeq(lfn_part, 1, 5), !.name_1 = SubSeq(lfn_part, 6, 11),
              !.name_2 = SubSeq(lfn_part, 12, 13)]
copy_name_to_slice(l) == l.name_0 \o l.name_1 \o l.name_2

\* lfn_checksum of the 11 bytes of a short name
lfn_checksum(short_name) ==
    LET chksum[i \in 0 .. 11] ==
            IF i = 0 THEN 0
            ELSE ((chksum[i - 1] % 2) * 128 + (chksum[i - 1] \div 2) + short_name[i]) % 256
    IN  chksum[11]

\* LongNameBuilder: [buf, chksum, index]
LongNameBuilder_new == [buf |-> <<>>, chksum |-> 0, index |-> 0]

\* LongNameBuilder::clear
LongNameBuilder_clear(b) == [b EXCEPT !.buf = <<>>, !.index = 0]

\* LongNameBuilder::truncate
RECURSIVE LongNameBuilder_truncate(_)
LongNameBuilder_truncate(buf) ==
    IF buf # <<>> /\ buf[Len(buf)] \in {65535, 0}
    THEN LongNameBuilder_truncate(SubSeq(buf, 1, Len(buf) - 1))
    ELSE buf

\* LongNameBuilder::to_vec
LongNameBuilder_to_vec(b) == IF b.index = 1 THEN LongNameBuilder_truncate(b.buf) ELSE <<>>

\* LongNameBuilder::process
LongNameBuilder_process(b, lfn_data) ==
    LET is_last == contains(lfn_data.order, LFN_ENTRY_LAST_FLAG)
        index == lfn_data.order % 32
        pos == LFN_PART_LEN * (index - 1)
        part == copy_name_to_slice(lfn_data)
        copied(b1) ==
            [b1 EXCEPT !.buf = [i \in 1 .. Len(b1.buf) |->
                                   IF i > pos /\ i <= pos + LFN_PART_LEN THEN part[i - pos]
                                   ELSE b1.buf[i]]]
    IN  IF index = 0 THEN LongNameBuilder_clear(b)
        ELSE IF is_last
        THEN copied([buf |-> [i \in 1 .. index * LFN_PART_LEN |->
                                 IF i <= Len(b.buf) THEN b.buf[i] ELSE 0],
                     chksum |-> lfn_data.checksum, index |-> index])
        ELSE IF b.index = 0 \/ index # b.index - 1 \/ lfn_data.checksum # b.chksum
        THEN LongNameBuilder_clear(b)
        ELSE copied([b EXCEPT !.index = b.index - 1])

\* A builder that takes any name for the name of the entry
LongNameBuilder_validate_chksum_unchecked(b, short_name) == b

\* LongNameBuilder::validate_chksum
LongNameBuilder_validate_chksum(b, short_name) ==
    IF lfn_checksum(short_name) # b.chksum THEN LongNameBuilder_clear(b) ELSE b

\* ShortName::new, as_bytes: the bytes of the decoded short name
ShortName_new(raw_name) ==
    LET len(from, to) ==
            LET used == {i \in from .. to : raw_name[i] # ord(" ")}
            IN  IF used = {} THEN 0 ELSE (CHOOSE i \in used : \A k \in used : k <= i) - from + 1
        name_len == len(1, 8)
        ext_len == len(9, 11)
        name == SubSeq(raw_name, 1, name_len)
                    \o (IF ext_len > 0 THEN <<ord(".")>> \o SubSeq(raw_name, 9, 8 + ext_len)
                        ELSE <<>>)
    IN  IF name # <<>> /\ name[1] = DIR_ENTRY_REALLY_E5_FLAG
        THEN [name EXCEPT ![1] = DIR_ENTRY_DELETED_FLAG] ELSE name

\* DirIter::read_dir_entry over the records recs of the stream, from record
\* offset on: [some, data, short_name, lfn, entry_pos, offset_range, offset];
\* a read past the last record is the end of the directory
RECURSIVE read_dir_entry_loop(_, _, _, _)
read_dir_entry_loop(recs, offset, begin_offset, lfn_buf) ==
    LET raw_entry == IF offset < Len(recs) THEN DirEntryData_deserialize(recs[offset + 1])
                     ELSE DirFileEntryData_default
        next == IF offset < Len(recs) THEN offset + 1 ELSE offset
    IN  IF raw_entry.kind = "File"
        THEN IF is_end(raw_entry) THEN [some |-> FALSE, offset |-> next]
             ELSE IF is_deleted(raw_entry) \/ is_volume(raw_entry)
             THEN read_dir_entry_loop(recs, next, next, LongNameBuilder_clear(lfn_buf))
             ELSE [some |-> TRUE, data |-> raw_entry,
                   short_name |-> ShortName_new(raw_entry.name),
                   lfn |-> LongNameBuilder_to_vec(
                               LongNameBuilder_validate_chksum(lfn_buf, raw_entry.name)),
                   entry_pos |-> offset, offset_range |-> <<begin_offset, next>>,
                   offset |-> next]
        ELSE IF is_deleted(raw_entry)
             THEN read_dir_entry_loop(recs, next, next, LongNameBuilder_clear(lfn_buf))
             ELSE read_dir_entry_loop(recs, next, begin_offset,
                                      LongNameBuilder_process(lfn_buf, raw_entry))

read_dir_entry(recs, offset) == read_dir_entry_loop(recs, offset, offset, LongNameBuilder_new)

----------------------------------------------------------------------------
\* The iteration of a directory that holds any records: dirents is the
\* directory, hist the iterator: its position, what it has yielded, and
\* whether it has ended.

MaxRecords == 4

\* The 11 bytes of a short name made of one letter
OneLetter(c) == padded(<<c>>, 11)

\* The 13 units of the fragment with the given index: the fragment of index
\* 1 that starts a run holds a name that ends inside it
LfnPart(index, short) ==
    IF short THEN [i \in 1 .. LFN_PART_LEN |-> IF i = 1 THEN 120 ELSE IF i = 2 THEN 0 ELSE 65535]
    ELSE [i \in 1 .. LFN_PART_LEN |-> 32 * index + i]

LfnRecord(order, chksum) ==
    DirLfnEntryData_serialize(
        copy_name_from_slice(DirLfnEntryData_new(order, chksum),
                             LfnPart(order % 32, order = LFN_ENTRY_LAST_FLAG + 1)))

FileRecord(first, attrs) ==
    DirFileEntryData_serialize(
        DirFileEntryData_new([OneLetter(ord("A")) EXCEPT ![1] = first], attrs))

SomeRecords ==
    {LfnRecord(order, lfn_checksum(OneLetter(ord("A")))) :
         order \in {1, 2, LFN_ENTRY_LAST_FLAG, LFN_ENTRY_LAST_FLAG + 1,
                    LFN_ENTRY_LAST_FLAG + 2, DIR_ENTRY_DELETED_FLAG}}
    \cup {LfnRecord(order, lfn_checksum(OneLetter(ord("Z")))) :
              order \in {1, LFN_ENTRY_LAST_FLAG + 1}}
    \cup {FileRecord(ord("A"), 0), FileRecord(ord("Z"), 0),
          FileRecord(DIR_ENTRY_DELETED_FLAG, 0), FileRecord(0, 0),
          FileRecord(ord("A"), FileAttributes_VOLUME_ID)}

InitIter ==
    /\ NoDevice /\ fatType = 12 /\ extFlags = 0 /\ fat = <<>> /\ mountFat = <<>>
    /\ diskStatus = 0 /\ bpbStatus = 0 /\ curFlags = 0
    /\ diskFsInfo = FsInfo_serialize(FsInfoDefault) /\ fsInfo = FsInfoDefault
    /\ mounted = FALSE /\ devTrace = <<>> /\ data = <<>> /\ files = <<>>
    /\ \E n \in 1 .. MaxRecords : dirents \in [1 .. n -> SomeRecords]
    /\ hist = [pos |-> 0, out |-> <<>>, ended |-> FALSE]

\* DirIter::next
IterNext ==
    /\ ~hist.ended
    /\ \E r \in {read_dir_entry(dirents, hist.pos)} :
           hist' = [pos |-> r.offset,
                    out |-> IF r.some THEN Append(hist.out, r) ELSE hist.out,
                    ended |-> ~r.some]
    /\ UNCHANGED idleFrame

\* Dir::iter: a new iterator over the same directory
IterRestart ==
    /\ hist.ended
    /\ hist' = [pos |-> 0, out |-> <<>>, ended |-> FALSE]
    /\ UNCHANGED idleFrame

NextIter == IterNext \/ IterRestart

SpecIter == InitIter /\ [][NextIter]_vars

\* The bytes of a record read without its decoding: the order or first byte,
\* the attributes, the checksum and the 13 units of a fragment
RawUnits(raw) ==
    [i \in 1 .. LFN_PART_LEN |->
        LET at == IF i <= 5 THEN 2 + 2 * (i - 1)
                  ELSE IF i <= 11 THEN 15 + 2 * (i - 6) ELSE 29 + 2 * (i - 12)
        IN  raw[at] + 256 * raw[at + 1]]

RawIsFragment(raw) == (raw[12] % 16) = 15 /\ raw[1] # 229

\* The 8-bit sum, rotated right before every byte, of the 11 name bytes
RECURSIVE RotatingSum(_)
RotatingSum(bytes) ==
    IF bytes = <<>> THEN 0
    ELSE LET before == RotatingSum(SubSeq(bytes, 1, Len(bytes) - 1))
         IN  ((IF before % 2 = 1 THEN 128 ELSE 0) + (before \div 2) + bytes[Len(bytes)]) % 256

\* The records first .. sfn - 1 (counted from 1) are a complete run of n
\* fragments for the entry at sfn, and name is what they spell
CompleteRun(recs, sfn, n, name) ==
    LET first == sfn - n
        units == [i \in 1 .. n * LFN_PART_LEN |->
                     RawUnits(recs[sfn - 1 - ((i - 1) \div LFN_PART_LEN)])[((i - 1) % LFN_PART_LEN) + 1]]
        ends(k) == \A i \in k + 1 .. Len(units) : units[i] \in {0, 65535}
    IN  /\ first >= 1
        /\ \A i \in 0 .. n - 1 :
              /\ RawIsFragment(recs[first + i])
              /\ recs[first + i][1] % 32 = n - i
              /\ ((recs[first + i][1] \div 64) % 2 = 1) <=> (i = 0)
              /\ recs[first + i][14] = RotatingSum(SubSeq(recs[sfn], 1, 11))
        /\ Len(name) <= Len(units)
        /\ name = SubSeq(units, 1, Len(name))
        /\ ends(Len(name))
        /\ name[Len(name)] \notin {0, 65535}

\* C21: every entry the iteration yields carries either no long name or the
\* name spelt by a complete run of fragments right before its record: the
\* first of the run has the flag 0x40, the indices fall by one down to 1, no
\* record of the run is deleted, and all carry the rotating 8-bit sum of the
\* entry's 11 short-name bytes.
C21_LongNameFromCompleteRun ==
    \A k \in 1 .. Len(hist.out) :
        LET e == hist.out[k]
        IN  e.lfn # <<>> =>
                \E n \in 1 .. e.entry_pos : CompleteRun(dirents, e.entry_pos + 1, n, e.lfn)

\* An entry was yielded with the name of a run of two fragments
C21_Witness ==
    /\ hist.out # <<>>
    /\ Len(hist.out[Len(hist.out)].lfn) = 2 * LFN_PART_LEN
    /\ hist.out[Len(hist.out)].offset_range = <<1, 4>>

----------------------------------------------------------------------------
\* DirFileEntryData and DirEntryEditor (dir_entry.rs).  A directory entry is
\* [size, lo, hi]: the size field and the two halves of the first cluster
\* number.  The time stamps are left out.

DirFileEntryData_first_cluster(d, ft) ==
    LET first_cluster_hi == IF ft = 32 THEN d.hi ELSE 0
        n == first_cluster_hi * 65536 + d.lo
    IN  IF n = 0 THEN None ELSE n

\* DirFileEntryData::size: None for a directory.  The entries of the file
\* specifications are regular files and carry no attributes
DirFileEntryData_size(d) ==
    IF "attrs" \in DOMAIN d /\ is_dir(d) THEN None ELSE d.size

DirFileEntryData_set_first_cluster(d, cluster, ft) ==
    LET n == IF cluster = None THEN 0 ELSE cluster
    IN  [d EXCEPT !.hi = IF ft = 32 THEN n \div 65536 ELSE @, !.lo = n % 65536]

\* DirEntryEditor::new: [data, dirty]; its pos is the index of the file
DirEntryEditor_new(d) == [data |-> d, dirty |-> FALSE]

DirEntryEditor_set_first_cluster(e, first_cluster, ft) ==
    IF first_cluster # DirFileEntryData_first_cluster(e.data, ft)
    THEN [data |-> DirFileEntryData_set_first_cluster(e.data, first_cluster, ft),
          dirty |-> TRUE]
    ELSE e

DirEntryEditor_set_size(e, size) ==
    IF DirFileEntryData_size(e.data) # None /\ size # e.data.size
    THEN [data |-> [e.data EXCEPT !.size = size], dirty |-> TRUE]
    ELSE e

DirEntryEditor_reset_modified(e) == [e EXCEPT !.dirty = TRUE]

\* DirEntryEditor::reset_accessed: changed tells whether the date differed
DirEntryEditor_reset_accessed(e, changed) == [e EXCEPT !.dirty = e.dirty \/ changed]

\* DirEntryEditor::flush that clears the dirty flag without writing the entry
DirEntryEditor_flush_nowrite(e, ds, pos) ==
    [e |-> [e EXCEPT !.dirty = FALSE], ds |-> ds]

\* DirEntryEditor::flush on the directory entries ds, the editor being at pos
DirEntryEditor_flush(e, ds, pos) ==
    IF e.dirty
    THEN [e |-> [e EXCEPT !.dirty = FALSE], ds |-> [ds EXCEPT ![pos] = e.data]]
    ELSE [e |-> e, ds |-> ds]

----------------------------------------------------------------------------
\* File (file.rs).  A handle is [open, first_cluster, current_cluster, offset,
\* entry]; the world an operation runs in is w = [ft, ef, m, fi, data, ds]:
\* FAT type, extended flags, device, FSInfo snapshot, data clusters and
\* directory entries.  The unsigned word of the model is 31 bits wide, so
\* MAX_FILE_SIZE, the largest u32 of the source, is the largest word here.

MAX_FILE_SIZE == 2147483647

\* u32 addition of a release build: wraps at the width of the word
wrapping_add(a, b) == IF a > MAX_FILE_SIZE - b THEN a - (MAX_FILE_SIZE - b) - 1 ELSE a + b

ClosedFile ==
    [open |-> FALSE, first_cluster |-> None, current_cluster |-> None, offset |-> 0,
     entry |-> DirEntryEditor_new([size |-> 0, lo |-> 0, hi |-> 0])]

\* File::new
File_new(first_cluster, entry) ==
    [open |-> TRUE, first_cluster |-> first_cluster, current_cluster |-> None,
     offset |-> 0, entry |-> entry]

\* DirEntry::to_file
to_file(d, ft) == File_new(DirFileEntryData_first_cluster(d, ft), DirEntryEditor_new(d))

\* update_size that leaves the entry as it is
update_size_skipped(F) == F

\* File::update_size
update_size(F) ==
    LET e == DirEntryEditor_reset_modified(F.entry)
    IN  [F EXCEPT !.entry = IF DirFileEntryData_size(e.data) # None /\ F.offset > e.data.size
                            THEN DirEntryEditor_set_size(e, F.offset) ELSE e]

\* File::set_first_cluster
File_set_first_cluster(F, cluster, ft) ==
    [F EXCEPT !.first_cluster = cluster,
              !.entry = DirEntryEditor_set_first_cluster(F.entry, cluster, ft)]

\* File::truncate: [ok, w, F]; ok is FALSE where the code panics (unwrap of
\* an empty current_cluster)
File_truncate(w, F) ==
    LET e1 == DirEntryEditor_set_size(F.entry, F.offset)
        e2 == IF F.offset = 0 THEN DirEntryEditor_set_first_cluster(e1, None, w.ft) ELSE e1
        F1 == [F EXCEPT !.entry = e2]
        done(r, F2) == [ok |-> TRUE, w |-> [w EXCEPT !.m = r.m, !.fi = r.fi], F |-> F2]
    IN  IF F.offset > 0
        THEN IF F.current_cluster = None
             THEN [ok |-> FALSE, w |-> w, F |-> F1]
             ELSE done(FileSystem_truncate_cluster_chain(w.m, w.fi, w.ft, w.ef,
                                                         F.current_cluster),
                       F1)
        ELSE IF IsSome(F.first_cluster)
             THEN done(FileSystem_free_cluster_chain(w.m, w.fi, w.ft, w.ef, F.first_cluster),
                       [F1 EXCEPT !.first_cluster = None])
             ELSE [ok |-> TRUE, w |-> w, F |-> F1]

\* A handle that never moves on to the next cluster of the chain
next_or_current_stay(w, F) ==
    IF F.current_cluster = None THEN F.first_cluster ELSE F.current_cluster

\* The cluster that holds the byte at the handle's offset, for read and write:
\* the next cluster when the offset is on a cluster boundary
next_or_current(w, F) ==
    IF F.offset % ClusterSize = 0
    THEN IF F.current_cluster = None THEN F.first_cluster
         ELSE ClusterIterator_next(w.m.fat, fat_slice(w.ft, w.ef), w.ft, F.current_cluster)
    ELSE F.current_cluster

\* File::bytes_left_in_file
bytes_left_in_file(F) ==
    IF DirFileEntryData_size(F.entry.data) = None THEN None
    ELSE F.entry.data.size - F.offset

\* impl Read for File: [F, bytes]; accessed tells whether update_accessed_date
\* is set and the date differs
File_read(w, F, len, accessed) ==
    LET offset_in_cluster == F.offset % ClusterSize
        bytes_left_in_cluster == ClusterSize - offset_in_cluster
        read_size == Min(Min(len, bytes_left_in_cluster),
                         IF DirFileEntryData_size(F.entry.data) = None
                         THEN bytes_left_in_cluster ELSE bytes_left_in_file(F))
        read_in(current_cluster) ==
            IF current_cluster = None \/ read_size <= 0
            THEN [F |-> F, bytes |-> <<>>]
            ELSE [F |-> [F EXCEPT !.offset = F.offset + read_size,
                                  !.current_cluster = current_cluster,
                                  !.entry = DirEntryEditor_reset_accessed(F.entry, accessed)],
                  bytes |-> SubSeq(w.data[current_cluster], offset_in_cluster + 1,
                                   offset_in_cluster + read_size)]
    IN  read_in(next_or_current(w, F))

\* A write that is not shortened at the limit
bytes_left_until_max_file_size_unbounded(F) == MAX_FILE_SIZE

\* File::write, bytes_left_until_max_file_size
bytes_left_until_max_file_size(F) == MAX_FILE_SIZE - F.offset

\* impl Write for File: [ok, w, F, n]; ok is FALSE for Err (NotEnoughSpace)
\* and for the panic on an offset inside a cluster without a current cluster
File_write(w, F, buf) ==
    LET offset_in_cluster == F.offset % ClusterSize
        bytes_left_in_cluster == ClusterSize - offset_in_cluster
        write_size == Min(Min(Len(buf), bytes_left_in_cluster),
                          bytes_left_until_max_file_size(F))
        failed == [ok |-> FALSE, w |-> w, F |-> F, n |-> 0]
        \* the write into current_cluster; w1 and F1 are the world and the
        \* handle after the allocation, if there was one
        write_in(w1, F1, current_cluster) ==
            [ok |-> TRUE,
             w |-> [w1 EXCEPT !.data[current_cluster] =
                       [i \in 1 .. ClusterSize |->
                           IF i > offset_in_cluster /\ i <= offset_in_cluster + write_size
                           THEN buf[i - offset_in_cluster] ELSE @[i]]],
             F |-> update_size([F1 EXCEPT !.offset = wrapping_add(F.offset, write_size),
                                          !.current_cluster = current_cluster]),
             n |-> write_size]
        \* end of chain reached: the new cluster
        \* a new cluster of a directory is zeroed
        zeroed(dt, cluster) ==
            IF DirFileEntryData_size(F.entry.data) = None
            THEN [dt EXCEPT ![cluster] = [i \in 1 .. ClusterSize |-> ZeroRecord]] ELSE dt
        allocated(alloc) ==
            IF ~alloc.ok THEN failed
            ELSE write_in([w EXCEPT !.m = alloc.m, !.fi = alloc.fi,
                                    !.data = zeroed(@, alloc.cluster)],
                          IF F.first_cluster = None
                          THEN File_set_first_cluster(F, alloc.cluster, w.ft) ELSE F,
                          alloc.cluster)
        located(next_cluster) ==
            IF offset_in_cluster = 0 /\ next_cluster = None
            THEN allocated(FileSystem_alloc_cluster(w.m, w.fi, w.ft, w.ef, F.current_cluster))
            ELSE IF next_cluster = None THEN failed
            ELSE write_in(w, F, next_cluster)
    IN  IF write_size = 0 THEN [ok |-> TRUE, w |-> w, F |-> F, n |-> 0]
        ELSE located(next_or_current(w, F))

\* impl Write for File, flush: flush_dir_entry at the entry of file pos
File_flush(w, F, pos) ==
    LET r == DirEntryEditor_flush(F.entry, w.ds, pos)
    IN  [w |-> [w EXCEPT !.ds = r.ds], F |-> [F EXCEPT !.entry = r.e]]

\* A walk that stays on the first cluster
seek_walk_stay(w, cluster, i, cluster_count, new_pos) ==
    [cluster |-> cluster, new_pos |-> new_pos]

\* impl Seek for File, the walk of the chain: [cluster, new_pos]
RECURSIVE seek_walk(_, _, _, _, _)
seek_walk(w, cluster, i, cluster_count, new_pos) ==
    IF i >= cluster_count THEN [cluster |-> cluster, new_pos |-> new_pos]
    ELSE LET step(nxt) ==
                 IF nxt = None
                 THEN [cluster |-> cluster, new_pos |-> (i + 1) * ClusterSize]
                 ELSE seek_walk(w, nxt, i + 1, cluster_count, new_pos)
         IN  step(ClusterIterator_next(w.m.fat, fat_slice(w.ft, w.ef), w.ft, cluster))

\* impl Seek for File: [ok, F]; pos is [from, x] for SeekFrom::Start(x),
\* Current(x) and End(x)
File_seek(w, F, pos) ==
    LET size == F.entry.data.size
        wanted == CASE pos.from = "Current" -> F.offset + pos.x
                    [] pos.from = "Start" -> pos.x
                    [] pos.from = "End" -> size + pos.x
        clamped == IF DirFileEntryData_size(F.entry.data) # None /\ wanted > size
                   THEN size ELSE wanted
        cluster_count == (clamped + ClusterSize - 1) \div ClusterSize - 1
        old_cluster_count == (F.offset + ClusterSize - 1) \div ClusterSize - 1
        landed(walked) == [ok |-> TRUE, F |-> [F EXCEPT !.offset = walked.new_pos,
                                                        !.current_cluster = walked.cluster]]
    IN  IF wanted < 0 THEN [ok |-> FALSE, F |-> F]
        ELSE IF clamped = F.offset THEN [ok |-> TRUE, F |-> F]
        ELSE IF clamped = 0
             THEN [ok |-> TRUE, F |-> [F EXCEPT !.offset = 0, !.current_cluster = None]]
        ELSE IF cluster_count = old_cluster_count
             THEN [ok |-> TRUE, F |-> [F EXCEPT !.offset = clamped]]
        ELSE landed(IF IsSome(F.first_cluster)
                    THEN seek_walk(w, F.first_cluster, 0, cluster_count, clamped)
                    ELSE [cluster |-> None, new_pos |-> 0])

\* Write::write_all over File::write: [ok, w, F]
RECURSIVE write_all(_, _, _)
write_all(w, F, buf) ==
    IF Len(buf) = 0 THEN [ok |-> TRUE, w |-> w, F |-> F]
    ELSE LET rest(r) ==
                 IF ~r.ok \/ r.n = 0 THEN [ok |-> FALSE, w |-> r.w, F |-> r.F]
                 ELSE write_all(r.w, r.F, SubSeq(buf, r.n + 1, Len(buf)))
         IN  rest(File_write(w, F, buf))

\* Read::read_to_end over File::read: the bytes from the handle's offset on
RECURSIVE read_to_end(_, _, _)
read_to_end(w, F, fuel) ==
    LET rest(r) ==
            IF Len(r.bytes) = 0 \/ fuel = 0 THEN <<>>
            ELSE r.bytes \o read_to_end(w, r.F, fuel - 1)
    IN  rest(File_read(w, F, ClusterSize, FALSE))

\* seek(Start(0)) and read to the end through the handle
read_from_start(w, F) ==
    read_to_end(w, File_seek(w, F, [from |-> "Start", x |-> 0]).F, TotalClusters + 1)

----------------------------------------------------------------------------
\* The file as a plain byte string: what the operations of one handle produce
\* when no other handle touches the volume.  a = [content, offset]; cap is the
\* number of clusters the file can grow to.

Abs_write(a, buf, cap) ==
    LET n == Min(Len(buf), ClusterSize - (a.offset % ClusterSize))
        clusters == (Len(a.content) + ClusterSize - 1) \div ClusterSize
        need_new == a.offset = clusters * ClusterSize
        end == a.offset + n
        new_len == IF end > Len(a.content) THEN end ELSE Len(a.content)
    IN  IF n = 0 THEN [ok |-> TRUE, a |-> a]
        ELSE IF need_new /\ clusters >= cap THEN [ok |-> FALSE, a |-> a]
        ELSE [ok |-> TRUE,
              a |-> [content |-> [i \in 1 .. new_len |->
                                     IF i > a.offset /\ i <= end
                                     THEN buf[i - a.offset] ELSE a.content[i]],
                     offset |-> end]]

Abs_read(a, len) ==
    LET n == Min(Min(len, ClusterSize - (a.offset % ClusterSize)), Len(a.content) - a.offset)
    IN  [a EXCEPT !.offset = a.offset + n]

Abs_seek(a, pos) ==
    LET wanted == CASE pos.from = "Current" -> a.offset + pos.x
                    [] pos.from = "Start" -> pos.x
                    [] pos.from = "End" -> Len(a.content) + pos.x
    IN  IF wanted < 0 THEN a
        ELSE [a EXCEPT !.offset = Min(wanted, Len(a.content))]

Abs_truncate(a) == [a EXCEPT !.content = SubSeq(a.content, 1, a.offset)]

----------------------------------------------------------------------------
\* The operations on File handles as actions.  Handle h is the handle on file
\* h; hist keeps the plain byte string of every file (sh), whether a write of
\* the handle failed for lack of space where it would not have on its own
\* (starved), cap, and the number of operations of every handle that is
\* counted (ops).

\* One more operation of handle h
Counted(ops, h) == IF h \in DOMAIN ops THEN [ops EXCEPT ![h] = @ + 1] ELSE ops

\* The world the operations of a step run in, and the same over given FAT
\* bytes, data clusters and directory entries
WorldOf(f, dt, ds) ==
    [ft |-> fatType, ef |-> extFlags,
     m |-> [fat |-> f, status |-> diskStatus, bpb |-> bpbStatus, cur |-> curFlags,
            tr |-> <<>>],
     fi |-> fsInfo, data |-> dt, ds |-> ds]

World == WorldOf(fat, data, dirents)

CommitWorld(w) ==
    /\ fat' = w.m.fat
    /\ diskStatus' = w.m.status
    /\ curFlags' = w.m.cur
    /\ devTrace' = <<>>
    /\ fsInfo' = w.fi
    /\ data' = w.data
    /\ dirents' = w.ds

fileFrame == <<gen, dev, bpb, fatType, extFlags, mountFat, bpbStatus, diskFsInfo, mounted>>

\* DirEntry::to_file on the entry of file h
Open(h) ==
    /\ ~files[h].open
    /\ files' = [files EXCEPT ![h] = to_file(dirents[h], fatType)]
    /\ hist' = [hist EXCEPT !.sh[h].offset = 0, !.ops = Counted(@, h)]
    /\ UNCHANGED <<fileFrame, fat, diskStatus, curFlags, devTrace, fsInfo, data, dirents>>

\* File::write(buf)
Write(h, buf) ==
    /\ files[h].open
    /\ \E r \in {File_write(World, files[h], buf)} :
       \E a \in {Abs_write(hist.sh[h], buf, hist.cap)} :
           /\ CommitWorld(r.w)
           /\ files' = [files EXCEPT ![h] = r.F]
           /\ hist' = [hist EXCEPT !.ops = Counted(@, h),
                                   !.sh[h] = a.a,
                                   !.starved[h] = @ \/ (~r.ok /\ a.ok)]
    /\ UNCHANGED fileFrame

\* File::read of a buffer of len bytes
Read(h, len, accessed) ==
    /\ files[h].open
    /\ \E r \in {File_read(World, files[h], len, accessed)} :
           /\ files' = [files EXCEPT ![h] = r.F]
           /\ hist' = [hist EXCEPT !.sh[h] = Abs_read(@, len), !.ops = Counted(@, h)]
    /\ UNCHANGED <<fileFrame, fat, diskStatus, curFlags, devTrace, fsInfo, data, dirents>>

\* File::seek(pos)
Seek(h, pos) ==
    /\ files[h].open
    /\ \E r \in {File_seek(World, files[h], pos)} :
           /\ files' = [files EXCEPT ![h] = r.F]
           /\ hist' = [hist EXCEPT !.sh[h] = Abs_seek(@, pos), !.ops = Counted(@, h)]
    /\ UNCHANGED <<fileFrame, fat, diskStatus, curFlags, devTrace, fsInfo, data, dirents>>

\* File::truncate
Truncate(h) ==
    /\ files[h].open
    /\ \E r \in {File_truncate(World, files[h])} :
           /\ CommitWorld(r.w)
           /\ files' = [files EXCEPT ![h] = r.F]
           /\ hist' = [hist EXCEPT !.sh[h] = Abs_truncate(@), !.ops = Counted(@, h)]
    /\ UNCHANGED fileFrame

\* File::flush
Flush(h) ==
    /\ files[h].open
    /\ \E r \in {File_flush(World, files[h], h)} :
           /\ CommitWorld(r.w)
           /\ files' = [files EXCEPT ![h] = r.F]
           /\ hist' = [hist EXCEPT !.ops = Counted(@, h)]
    /\ UNCHANGED fileFrame

\* Drop for File: flush, and the handle is gone
Drop(h) ==
    /\ files[h].open
    /\ \E r \in {File_flush(World, files[h], h)} :
           /\ CommitWorld(r.w)
           /\ files' = [files EXCEPT ![h] = ClosedFile]
           /\ hist' = [hist EXCEPT !.ops = Counted(@, h)]
    /\ UNCHANGED fileFrame

\* Byte strings that tell the position: position i holds (i % 3) + 1
Pat(n) == [i \in 1 .. n |-> (i % 3) + 1]

\* The bytes handle h writes: the handle can be told from every byte
StampBuf(h, n) == [i \in 1 .. n |-> 3 + h]

\* Seek targets
SeekPositions ==
    {[from |-> "Start", x |-> x] : x \in 0 .. TotalClusters * ClusterSize}
    \cup {[from |-> "End", x |-> -1], [from |-> "Current", x |-> 1]}

EmptyEntry == [size |-> 0, lo |-> 0, hi |-> 0]

\* A volume with nFiles empty files on one of the layouts, the handles in the
\* state handles
InitFiles(nFiles, layouts, handles, ops) ==
    /\ NoDevice
    /\ fatType \in FatTypes
    /\ extFlags = 0
    /\ \E layout \in layouts :
          /\ fat = FatRegion(fatType, LayoutRaws(fatType, layout))
          /\ hist = [sh |-> [h \in 1 .. nFiles |-> [content |-> <<>>, offset |-> 0]],
                     starved |-> [h \in 1 .. nFiles |-> FALSE],
                     ops |-> ops,
                     cap |-> Cardinality(FreeEntries(fat, fatType, extFlags))]
    /\ mountFat = fat
    /\ diskStatus = 0
    /\ bpbStatus = 0
    /\ curFlags = 0
    /\ diskFsInfo = [free |-> None, next |-> None]
    /\ fsInfo = FileSystem_new_fs_info(fatType, diskFsInfo, bpbStatus)
    /\ mounted = TRUE
    /\ devTrace = <<>>
    /\ dirents = [h \in 1 .. nFiles |-> EmptyEntry]
    /\ data = [c \in Clusters |-> [i \in 1 .. ClusterSize |-> 0]]
    /\ files = [h \in 1 .. nFiles |-> handles]

----------------------------------------------------------------------------
\* SpecFile: one file and one handle on it, on an empty volume and on a
\* volume whose middle cluster is taken.

InitFile == InitFiles(1, {<<>>, <<0, -2>>}, ClosedFile, <<>>)

NextFile ==
    \/ Open(1)
    \/ \E n \in {1, ClusterSize + 1} : Write(1, StampBuf(1, n))
    \/ \E len \in {1, ClusterSize + 1} : \E accessed \in BOOLEAN : Read(1, len, accessed)
    \/ \E pos \in SeekPositions : Seek(1, pos)
    \/ Truncate(1)
    \/ Flush(1)
    \/ Drop(1)

SpecFile == InitFile /\ [][NextFile]_vars

\* The length of the chain that starts at first (0 without a first cluster)
ChainLen(f, first) == IF first = None THEN 0 ELSE Len(Chain(f, first))

SizeFits(size, chain_length) ==
    (chain_length - 1) * ClusterSize < size /\ size <= chain_length * ClusterSize

MaxLen == 5

\* Byte strings that differ from what the handles write
Datas == {Pat(n) : n \in 0 .. MaxLen}

\* truncate at 0, write_all(D), then read to the end from the start, and for
\* a position p: seek(p), truncate, read to the end from the start
RoundTrip(w, F, D) ==
    LET t == File_truncate(w, File_seek(w, F, [from |-> "Start", x |-> 0]).F)
        wa == write_all(t.w, t.F, D)
    IN  [ok |-> t.ok /\ wa.ok,
         read |-> read_from_start(wa.w, wa.F),
         cut |-> [p \in 0 .. Len(D) |->
                    LET tp == File_truncate(wa.w,
                                  File_seek(wa.w, wa.F, [from |-> "Start", x |-> p]).F)
                    IN  read_from_start(tp.w, tp.F)]]

\* C5: from every state of an open handle and for every byte string D:
\* truncate at 0, write_all(D), seek(Start(0)), read to end returns D; and
\* after seek to p <= len(D) and truncate, reading from 0 to the end returns
\* the first p bytes of D.
C5_RoundTrip ==
    \A h \in DOMAIN files : files[h].open =>
        \A D \in Datas :
            LET r == RoundTrip(World, files[h], D)
            IN  r.ok => /\ r.read = D
                        /\ \A p \in 0 .. Len(D) : r.cut[p] = SubSeq(D, 1, p)

C5_Witness ==
    /\ files[1].open
    /\ files[1].offset = ClusterSize + 1
    /\ files[1].entry.data.size = 2 * ClusterSize
    /\ RoundTrip(World, files[1], Pat(MaxLen)).ok
    /\ RoundTrip(World, files[1], Pat(MaxLen)).read = Pat(MaxLen)

----------------------------------------------------------------------------
\* SpecTwo: two empty files on an empty volume and an open handle on each;
\* the operations of the two handles interleave.

\* The number of operations of each handle in an interleaving
MaxOps == 4

InitTwo == InitFiles(2, {<<>>}, to_file(EmptyEntry, fatType), <<0, 0>>)

\* Seek targets of the two handles
SeekPositionsTwo ==
    {[from |-> "Start", x |-> 0], [from |-> "Start", x |-> 1], [from |-> "End", x |-> 0]}

NextTwo ==
    \E h \in {x \in 1 .. 2 : hist.ops[x] < MaxOps} :
        \/ Write(h, StampBuf(h, ClusterSize + 1))
        \/ \E pos \in SeekPositionsTwo : Seek(h, pos)
        \/ Truncate(h)
        \/ Flush(h)

SpecTwo == InitTwo /\ [][NextTwo]_vars

\* The first cluster of file h: the handle's, or the directory entry's when
\* the file is not open
FirstOf(h) ==
    IF files[h].open THEN files[h].first_cluster
    ELSE DirFileEntryData_first_cluster(dirents[h], fatType)

ChainSet(h) == {Chain(fat, FirstOf(h))[i] : i \in 1 .. ChainLen(fat, FirstOf(h))}

\* The bytes of file h, read through its handle, or through a fresh open when
\* the file is not open
FileContents(h) ==
    read_from_start(World, IF files[h].open THEN files[h] ELSE to_file(dirents[h], fatType))

ChainsDisjoint == ChainSet(1) \cap ChainSet(2) = {}

ContentsAsAlone(h) == FileContents(h) = hist.sh[h].content

----------------------------------------------------------------------------
\* SpecSeek: one file whose directory entry and chain are found on the
\* volume, the chain as long as the size asks for, longer or shorter; the
\* handle on it is opened, sought and read.

\* Chains of no, one, two and three clusters, the last two also out of order
SeekLayouts == {<<>>, <<-2>>, <<3, -2>>, <<-2, 2>>, <<3, 4, -2>>, <<4, -2, 3>>}

\* The first cluster of the chain of a layout
LayoutHead(layout) ==
    IF layout = <<>> THEN 0
    ELSE IF layout = <<-2, 2>> THEN RESERVED_FAT_ENTRIES + 1
    ELSE RESERVED_FAT_ENTRIES

\* The byte at index i of cluster c
ClusterByte(c, i) == 10 * c + i

InitSeek ==
    /\ NoDevice
    /\ fatType \in FatTypes
    /\ extFlags = 0
    /\ \E layout \in SeekLayouts, size \in 0 .. TotalClusters * ClusterSize :
          /\ fat = FatRegion(fatType, LayoutRaws(fatType, layout))
          /\ dirents = <<[size |-> size, lo |-> LayoutHead(layout), hi |-> 0]>>
          /\ hist = [sh |-> <<[content |-> Pat(size), offset |-> 0]>>,
                     starved |-> <<FALSE>>,
                     ops |-> <<>>,
                     cap |-> TotalClusters]
    /\ mountFat = fat
    /\ diskStatus = 0
    /\ bpbStatus = 0
    /\ curFlags = 0
    /\ diskFsInfo = [free |-> None, next |-> None]
    /\ fsInfo = FileSystem_new_fs_info(fatType, diskFsInfo, bpbStatus)
    /\ mounted = TRUE
    /\ devTrace = <<>>
    /\ data = [c \in Clusters |-> [i \in 1 .. ClusterSize |-> ClusterByte(c, i)]]
    /\ files = <<ClosedFile>>

ReadLengths == {1, ClusterSize, ClusterSize + 1}

SeekTargets ==
    {[from |-> "Start", x |-> x] : x \in 0 .. TotalClusters * ClusterSize + 1}
    \cup {[from |-> "End", x |-> x] : x \in {-TotalClusters * ClusterSize - 1, -1, 0, 1}}
    \cup {[from |-> "Current", x |-> x] : x \in {-ClusterSize, -1, 1, ClusterSize}}

NextSeek ==
    \/ Open(1)
    \/ \E len \in ReadLengths : \E accessed \in BOOLEAN : Read(1, len, accessed)
    \/ \E pos \in SeekTargets : Seek(1, pos)

SpecSeek == InitSeek /\ [][NextSeek]_vars

\* The target of a seek of the handle F
SeekTarget(F, pos) ==
    CASE pos.from = "Current" -> F.offset + pos.x
      [] pos.from = "Start" -> pos.x
      [] pos.from = "End" -> F.entry.data.size + pos.x

\* What seek leaves in the handle, links(offset) being the number of links
\* walked from first_cluster to the current cluster of a non-zero offset
SeekPost(pos, links(_)) ==
    LET F == files[1]
        G == files'[1]
        s == F.entry.data.size
        chain == Chain(fat, F.first_cluster)
        target == SeekTarget(F, pos)
    IN  IF target < 0
        THEN ~File_seek(World, F, pos).ok /\ G = F
        ELSE /\ File_seek(World, F, pos).ok
             /\ G.offset = Min(Min(target, s), Len(chain) * ClusterSize)
             /\ G.current_cluster = IF G.offset = 0 \/ links(G.offset) >= Len(chain) THEN None
                                    ELSE chain[links(G.offset) + 1]
             /\ G.first_cluster = F.first_cluster
             /\ G.entry = F.entry
             /\ (pos = [from |-> "End", x |-> 0] /\ Len(chain) * ClusterSize >= s)
                    => G.offset = s

FileByte(F, p) ==
    data[Chain(fat, F.first_cluster)[(p \div ClusterSize) + 1]][(p % ClusterSize) + 1]

\* C29: a read returns n = min(buffer length, bytes left in the current
\* cluster, size - offset) bytes, the bytes of the file at offset .. offset + n,
\* advances the offset by n and returns no byte at or beyond the size; at the
\* end of the file, on an empty file and when the chain has no next cluster it
\* returns 0 and leaves the offset and the current cluster unchanged.
C29_ReadPostcondition ==
    [][\A len \in ReadLengths, accessed \in BOOLEAN :
          Read(1, len, accessed) =>
              LET F == files[1]
                  G == files'[1]
                  bytes == File_read(World, F, len, accessed).bytes
                  size == F.entry.data.size
                  n == Min(Min(len, ClusterSize - (F.offset % ClusterSize)), size - F.offset)
                  no_cluster == F.offset \div ClusterSize >= Len(Chain(fat, F.first_cluster))
              IN  IF F.offset >= size \/ no_cluster
                  THEN /\ bytes = <<>>
                       /\ G.offset = F.offset
                       /\ G.current_cluster = F.current_cluster
                  ELSE /\ bytes = [i \in 1 .. n |-> FileByte(F, F.offset + i - 1)]
                       /\ n > 0
                       /\ G.offset = F.offset + n
                       /\ G.offset <= size]_vars

\* A read that changed the access date brought the handle into the second
\* cluster of a chain that is out of order, the file going on in a third
C29_Witness ==
    /\ files[1].open
    /\ files[1].entry.dirty
    /\ files[1].entry.data.size = 2 * ClusterSize + 1
    /\ files[1].offset = ClusterSize + 1
    /\ Chain(fat, files[1].first_cluster)
           = <<RESERVED_FAT_ENTRIES, RESERVED_FAT_ENTRIES + 2, RESERVED_FAT_ENTRIES + 1>>
    /\ files[1].current_cluster = RESERVED_FAT_ENTRIES + 2

----------------------------------------------------------------------------
\* A handle next to MAX_FILE_SIZE.  The volume holds the tail of the file's
\* chain only: the handle's current cluster is the first cluster of the
\* volume, the clusters of the lower offsets are left out, and first_cluster
\* stands for them.  The chain has the clusters the size asks for and no more.
\* Seek walks the chain from its start and is not part of this
\* specification.

LimitLayouts == {<<-2>>, <<-2, -2>>, <<-2, -2, -2>>, <<3, -2>>, <<4, -2, -2>>, <<3, 4, -2>>, <<4, -2, 3>>}

LimitOffsets == {MAX_FILE_SIZE - k : k \in 0 .. 2 * ClusterSize - 1}

\* The number of clusters below position pos, pos itself counted with the
\* cluster before it when it is on a boundary
ClustersUpTo(pos) == ((pos - 1) \div ClusterSize) + 1

LimitBuffers == {<<>>, <<7>>, <<7, 8>>, <<7, 8, 9>>}

InitLimit ==
    /\ NoDevice
    /\ fatType \in FatTypes
    /\ extFlags = 0
    /\ \E layout \in LimitLayouts, offset \in LimitOffsets :
       \E size \in {s \in LimitOffsets : s >= offset} :
          /\ fat = FatRegion(fatType, LayoutRaws(fatType, layout))
          /\ Len(Chain(fat, LayoutHead(layout))) - 1 = ClustersUpTo(size) - ClustersUpTo(offset)
          /\ dirents = <<[size |-> size, lo |-> LayoutHead(layout), hi |-> 0]>>
          /\ files = <<[to_file(dirents[1], fatType) EXCEPT
                           !.offset = offset, !.current_cluster = LayoutHead(layout)]>>
    /\ hist = [sh |-> <<[content |-> <<>>, offset |-> 0]>>, starved |-> <<FALSE>>,
               ops |-> <<>>, cap |-> 0]
    /\ mountFat = fat
    /\ diskStatus = 0
    /\ bpbStatus = 0
    /\ curFlags = 0
    /\ diskFsInfo = [free |-> None, next |-> None]
    /\ fsInfo = FileSystem_new_fs_info(fatType, diskFsInfo, bpbStatus)
    /\ mounted = TRUE
    /\ devTrace = <<>>
    /\ data = [c \in Clusters |-> [i \in 1 .. ClusterSize |-> ClusterByte(c, i)]]

NextLimit ==
    \/ \E buf \in LimitBuffers : Write(1, buf)
    \/ \E len \in ReadLengths : \E accessed \in BOOLEAN : Read(1, len, accessed)
    \/ Flush(1)

SpecLimit == InitLimit /\ [][NextLimit]_vars

\* C30: the offset of a handle never passes MAX_FILE_SIZE and never wraps: a
\* write returns at most MAX_FILE_SIZE - offset bytes and moves the offset
\* forward by what it returns, a write that would cross the limit and finds
\* its cluster ends exactly at MAX_FILE_SIZE, and a write at MAX_FILE_SIZE
\* returns 0 bytes, allocates no cluster and leaves the size as it was.
C30_OffsetStopsAtLimit ==
    [][\A buf \in LimitBuffers :
          Write(1, buf) =>
              LET F == files[1]
                  G == files'[1]
                  r == File_write(World, F, buf)
                  room == MAX_FILE_SIZE - F.offset
                  asked == Min(Len(buf), ClusterSize - (F.offset % ClusterSize))
              IN  /\ G.offset >= F.offset
                  /\ G.offset <= MAX_FILE_SIZE
                  /\ r.n <= room
                  /\ G.offset - F.offset = r.n
                  /\ G.entry.data.size <= MAX_FILE_SIZE
                  /\ (r.ok /\ asked > room) => /\ r.n = room
                                               /\ G.offset = MAX_FILE_SIZE
                  /\ F.offset = MAX_FILE_SIZE =>
                        /\ r.ok /\ r.n = 0
                        /\ G = F
                        /\ UNCHANGED <<fat, fsInfo, data, dirents>>]_vars

\* A write of two bytes one byte below the limit has put one byte into a
\* cluster it allocated and has stopped at MAX_FILE_SIZE
C30_Witness ==
    /\ files[1].offset = MAX_FILE_SIZE
    /\ files[1].entry.dirty
    /\ files[1].entry.data.size = MAX_FILE_SIZE
    /\ Len(Chain(fat, files[1].first_cluster)) = 2
    /\ data[files[1].current_cluster][1] = 7
    /\ files[1].current_cluster # files[1].first_cluster

----------------------------------------------------------------------------
\* Dir (dir.rs) on a FAT12 or FAT16 volume.  The root directory is the
\* region ds of the world, the records right before the first cluster; a
\* cluster holds ClusterSize records, of a directory or of a file.  A
\* stream is [root, F, offset]: the root region at record offset, or the
\* handle F of a directory file.  A directory is [stream, pos], pos being the
\* recorded position of its own entry on the volume (None for the root); a
\* position on the volume is counted in records from the start of the root
\* region.  An operation returns [ok, err, w, ...].

\* char::encode_utf16
char_encode_utf16(c) ==
    IF c < 65536 THEN <<c>>
    ELSE <<55296 + ((c - 65536) \div 1024), 56320 + ((c - 65536) % 1024)>>

\* str::encode_utf16 of the chars lo to hi of a name, by halves
RECURSIVE encode_utf16_of(_, _, _)
encode_utf16_of(name, lo, hi) ==
    IF lo > hi THEN <<>>
    ELSE IF lo = hi THEN char_encode_utf16(name[lo])
    ELSE encode_utf16_of(name, lo, (lo + hi) \div 2)
             \o encode_utf16_of(name, (lo + hi) \div 2 + 1, hi)

\* str::encode_utf16
encode_utf16(name) == encode_utf16_of(name, 1, Len(name))

\* String::from_utf16_lossy
RECURSIVE from_utf16_lossy(_)
from_utf16_lossy(units) ==
    IF units = <<>> THEN <<>>
    ELSE IF Head(units) \in 55296 .. 56319 /\ Len(units) > 1
             /\ units[2] \in 56320 .. 57343
    THEN <<65536 + (Head(units) - 55296) * 1024 + (units[2] - 56320)>>
             \o from_utf16_lossy(SubSeq(units, 3, Len(units)))
    ELSE <<IF Head(units) \in 55296 .. 57343 THEN 65533 ELSE Head(units)>>
             \o from_utf16_lossy(Tail(units))

\* char::len_utf8
len_utf8(c) == IF c < 128 THEN 1 ELSE IF c < 2048 THEN 2 ELSE IF c < 65536 THEN 3 ELSE 4

\* The bytes of the UTF-8 encoding of the chars lo to hi of a name, by halves
RECURSIVE str_len_of(_, _, _)
str_len_of(name, lo, hi) ==
    IF lo > hi THEN 0
    ELSE IF lo = hi THEN len_utf8(name[lo])
    ELSE str_len_of(name, lo, (lo + hi) \div 2) + str_len_of(name, (lo + hi) \div 2 + 1, hi)

\* str::len: the bytes of the UTF-8 encoding
str_len(name) == str_len_of(name, 1, Len(name))

to_ascii_lowercase(c) == IF c \in 65 .. 90 THEN c + 32 ELSE c

\* str::eq_ignore_ascii_case
eq_ignore_ascii_case(a, b) ==
    /\ Len(a) = Len(b)
    /\ \A i \in 1 .. Len(a) : to_ascii_lowercase(a[i]) = to_ascii_lowercase(b[i])

\* decode_oem_char_lossy
decode_oem_char_lossy(oem_char) == IF oem_char <= 127 THEN oem_char ELSE 65533

\* DirFileEntryData::lowercase_name
lowercase_name(d) ==
    LET lowercase_basename == contains(d.reserved_0, 8)
        lowercase_ext == contains(d.reserved_0, 16)
        name_copy == [i \in 1 .. 11 |->
                         IF (i <= 8 /\ lowercase_basename) \/ (i > 8 /\ lowercase_ext)
                         THEN to_ascii_lowercase(d.name[i]) ELSE d.name[i]]
        short == ShortName_new(name_copy)
    IN  [i \in 1 .. Len(short) |-> decode_oem_char_lossy(short[i])]

\* DirEntry::file_name
file_name(e) == IF Len(e.lfn) > 0 THEN from_utf16_lossy(e.lfn) ELSE lowercase_name(e.data)

\* The characters validate_long_name lets pass
LongNameChars ==
    (97 .. 122) \cup (65 .. 90) \cup (48 .. 57) \cup (128 .. 65535)
        \cup {36, 37, 39, 45, 95, 64, 126, 96, 33, 40, 41, 123, 125, 46, 32, 43, 44, 59, 61, 91, 93}

\* A validation that counts the UTF-16 units of the name
validate_long_name_units(name) ==
    /\ Len(encode_utf16(name)) \in 1 .. 255
    /\ \A i \in 1 .. Len(name) : name[i] \in LongNameChars

\* validate_long_name: TRUE for Ok, FALSE for Err(InvalidInput)
validate_long_name(name) ==
    /\ str_len(name) # 0
    /\ ~(str_len(name) > 255)
    /\ \A i \in 1 .. Len(name) : name[i] \in LongNameChars

\* LfnEntriesGenerator: the fragments of a name, the last part of the name
\* first
LfnEntriesGenerator(name_utf16, chksum) ==
    LET num == (Len(name_utf16) + LFN_PART_LEN - 1) \div LFN_PART_LEN
        name_part(lfn_index) ==
            SubSeq(name_utf16, LFN_PART_LEN * (lfn_index - 1) + 1,
                   Min(LFN_PART_LEN * lfn_index, Len(name_utf16)))
        lfn_part(part) ==
            [i \in 1 .. LFN_PART_LEN |->
                IF i <= Len(part) THEN part[i] ELSE IF i = Len(part) + 1 THEN 0 ELSE 65535]
    IN  [index \in 1 .. num |->
            copy_name_from_slice(
                DirLfnEntryData_new((num - (index - 1))
                                        + (IF index = 1 THEN LFN_ENTRY_LAST_FLAG ELSE 0),
                                    chksum),
                lfn_part(name_part(num - (index - 1))))]

\* FileSystem::offset_from_cluster, from the start of the root region
offset_from_cluster(w, cluster) ==
    Len(w.ds) + (cluster - RESERVED_FAT_ENTRIES) * ClusterSize

\* A write of one record at a position of the volume
record_write(w, pos, raw) ==
    IF pos < Len(w.ds) THEN [w EXCEPT !.ds[pos + 1] = raw]
    ELSE [w EXCEPT !.data[((pos - Len(w.ds)) \div ClusterSize) + RESERVED_FAT_ENTRIES]
                        [((pos - Len(w.ds)) % ClusterSize) + 1] = raw]

\* The record at a position of the volume
record_read(w, pos) ==
    IF pos < Len(w.ds) THEN w.ds[pos + 1]
    ELSE w.data[((pos - Len(w.ds)) \div ClusterSize) + RESERVED_FAT_ENTRIES]
               [((pos - Len(w.ds)) % ClusterSize) + 1]

\* FileSystem::root_dir on FAT12 and FAT16
RootStream == [root |-> TRUE, F |-> ClosedFile, offset |-> 0]
root_dir == [stream |-> RootStream, pos |-> None]

\* DirRawStream::abs_pos: DiskSlice::abs_pos and File::abs_pos
abs_pos(w, stream) ==
    IF stream.root THEN stream.offset
    ELSE IF stream.F.current_cluster = None THEN None
    ELSE offset_from_cluster(w, stream.F.current_cluster) + (stream.F.offset % ClusterSize)

\* The position of a stream in its directory
stream_pos(stream) == IF stream.root THEN stream.offset ELSE stream.F.offset

\* DirRawStream::read of one record: [stream, eof, raw]
stream_read(w, stream) ==
    IF stream.root
    THEN IF stream.offset < Len(w.ds)
         THEN [stream |-> [stream EXCEPT !.offset = @ + 1], eof |-> FALSE,
               raw |-> w.ds[stream.offset + 1]]
         ELSE [stream |-> stream, eof |-> TRUE, raw |-> ZeroRecord]
    ELSE LET got(r) ==
                 IF r.bytes = <<>> THEN [stream |-> stream, eof |-> TRUE, raw |-> ZeroRecord]
                 ELSE [stream |-> [stream EXCEPT !.F = r.F], eof |-> FALSE, raw |-> r.bytes[1]]
         IN  got(File_read(w, stream.F, 1, FALSE))

\* DirRawStream::write of one record by write_all: [ok, err, w, stream]
stream_write(w, stream, raw) ==
    IF stream.root
    THEN IF stream.offset < Len(w.ds)
         THEN [ok |-> TRUE, err |-> "", w |-> [w EXCEPT !.ds[stream.offset + 1] = raw],
               stream |-> [stream EXCEPT !.offset = @ + 1]]
         ELSE [ok |-> FALSE, err |-> "WriteZero", w |-> w, stream |-> stream]
    ELSE LET done(r) ==
                 IF r.ok /\ r.n = 1
                 THEN [ok |-> TRUE, err |-> "", w |-> r.w, stream |-> [stream EXCEPT !.F = r.F]]
                 ELSE [ok |-> FALSE, err |-> IF r.ok THEN "WriteZero" ELSE "NotEnoughSpace",
                       w |-> r.w, stream |-> [stream EXCEPT !.F = r.F]]
         IN  done(File_write(w, stream.F, <<raw>>))

\* DirRawStream::seek: [ok, stream]
stream_seek(w, stream, seek_from) ==
    IF stream.root
    THEN LET new_offset == IF seek_from.from = "Current" THEN stream.offset + seek_from.x
                           ELSE IF seek_from.from = "Start" THEN seek_from.x
                           ELSE Len(w.ds) + seek_from.x
         IN  IF new_offset < 0 \/ new_offset > Len(w.ds) THEN [ok |-> FALSE, stream |-> stream]
             ELSE [ok |-> TRUE, stream |-> [stream EXCEPT !.offset = new_offset]]
    ELSE LET done(r) == [ok |-> r.ok, stream |-> [stream EXCEPT !.F = r.F]]
         IN  done(File_seek(w, stream.F, seek_from))

\* The drop of a stream: File::drop flushes the entry of a directory file
\* through its editor, at the position the editor has recorded
stream_drop(w, stream, pos) ==
    IF ~stream.root /\ stream.F.entry.dirty
    THEN record_write(w, pos, DirFileEntryData_serialize(stream.F.entry.data))
    ELSE w

\* The records of a directory in reading order, read one by one to the end
RECURSIVE stream_records(_, _, _)
stream_records(w, stream, fuel) ==
    LET rest(r) ==
            IF r.eof \/ fuel = 0 THEN <<>>
            ELSE <<r.raw>> \o stream_records(w, r.stream, fuel - 1)
    IN  rest(stream_read(w, stream))

Dir_records(w, dir) ==
    stream_records(w, dir.stream, Len(w.ds) + TotalClusters * ClusterSize)

\* The stream of a directory after the record of index i has been read
RECURSIVE stream_after(_, _, _)
stream_after(w, stream, i) ==
    IF i < 0 THEN stream ELSE stream_after(w, stream_read(w, stream).stream, i - 1)

\* Dir::iter: the entries of a directory in order, each with the position of
\* its short-name record on the volume as read_dir_entry takes it from the
\* stream
RECURSIVE DirIter_entries(_, _, _, _)
DirIter_entries(w, dir, recs, offset) ==
    LET rest(e) ==
            IF ~e.some THEN <<>>
            ELSE <<[e EXCEPT !.entry_pos =
                        abs_pos(w, stream_after(w, dir.stream, e.entry_pos)) - 1]>>
                     \o DirIter_entries(w, dir, recs, e.offset)
    IN  rest(read_dir_entry(recs, offset))

Dir_iter(w, dir) == DirIter_entries(w, dir, Dir_records(w, dir), 0)

\* DirEntry::first_cluster, to_dir and to_file
DirEntry_first_cluster(w, e) == DirFileEntryData_first_cluster(e.data, w.ft)

to_dir(w, e) ==
    IF DirEntry_first_cluster(w, e) = None THEN root_dir
    ELSE [stream |-> [root |-> FALSE, offset |-> 0,
                      F |-> File_new(DirEntry_first_cluster(w, e), DirEntryEditor_new(e.data))],
          pos |-> e.entry_pos]

\* Dir::find_entry: [found, e, gen]
RECURSIVE find_entry_loop(_, _, _, _)
find_entry_loop(entries, i, name, g) ==
    IF i > Len(entries) THEN [found |-> FALSE, gen |-> g]
    ELSE IF eq_ignore_ascii_case(file_name(entries[i]), name)
    THEN [found |-> TRUE, e |-> entries[i], gen |-> g]
    ELSE find_entry_loop(entries, i + 1, name,
                         IF g = NoGen THEN g ELSE add_existing(g, entries[i].data.name))

find_entry(w, dir, name, g) == find_entry_loop(Dir_iter(w, dir), 1, name, g)

\* Dir::find_free_entries: [ok, stream], the stream at the first of the
\* records found
RECURSIVE find_free_entries_loop(_, _, _, _, _, _)
find_free_entries_loop(w, stream, first_free, run_free, i, num_entries) ==
    LET looked(r, raw_entry) ==
            LET first == IF run_free = 0 THEN i ELSE first_free
            IN  IF is_end(raw_entry)
                       \/ (is_deleted(raw_entry) /\ run_free + 1 = num_entries)
                THEN stream_seek(w, r.stream, [from |-> "Start", x |-> first])
                ELSE IF is_deleted(raw_entry)
                THEN find_free_entries_loop(w, r.stream, first, run_free + 1, i + 1,
                                            num_entries)
                ELSE find_free_entries_loop(w, r.stream, first_free, 0, i + 1, num_entries)
        read(r) == looked(r, IF r.eof THEN DirFileEntryData_default
                             ELSE DirEntryData_deserialize(r.raw))
    IN  read(stream_read(w, stream))

\* A search that takes the records at the start of the directory
find_free_entries_at_start(w, dir, num_entries) ==
    stream_seek(w, dir.stream, [from |-> "Start", x |-> 0])

find_free_entries(w, dir, num_entries) ==
    find_free_entries_loop(w, dir.stream, 0, 0, 0, num_entries)

\* The records written one after the other from the stream on: [ok, err, w,
\* stream]
RECURSIVE stream_write_all(_, _, _)
stream_write_all(w, stream, raws) ==
    IF raws = <<>> THEN [ok |-> TRUE, err |-> "", w |-> w, stream |-> stream]
    ELSE LET rest(r) == IF ~r.ok THEN r ELSE stream_write_all(r.w, r.stream, Tail(raws))
         IN  rest(stream_write(w, stream, Head(raws)))

\* Dir::create_lfn_entries of a build with the feature alloc: [ok, err, w,
\* stream, start_pos]
create_lfn_entries(w, dir, name, short_name) ==
    LET lfn_iter == LfnEntriesGenerator(encode_utf16(name), lfn_checksum(short_name))
        num_entries == Len(lfn_iter) + 1
        written(start, r) ==
            [ok |-> r.ok, err |-> r.err, w |-> r.w, stream |-> r.stream,
             start_pos |-> stream_pos(start)]
        at(found) ==
            IF ~found.ok
            THEN [ok |-> FALSE, err |-> "InvalidInput", w |-> w, stream |-> found.stream,
                  start_pos |-> 0]
            ELSE written(found.stream,
                         stream_write_all(w, found.stream,
                                          [k \in 1 .. Len(lfn_iter) |->
                                              DirLfnEntryData_serialize(lfn_iter[k])]))
    IN  at(find_free_entries(w, dir, num_entries))

\* create_entry that takes the position of the record from the stream
\* position inside the cluster where the record was written
entry_abs_pos_within(w, before, after) == abs_pos(w, before)

\* create_entry: the position of the short-name record as the code takes it,
\* abs_pos() - DIR_ENTRY_SIZE of the stream after the write
entry_abs_pos(w, before, after) == abs_pos(w, after) - 1

\* Dir::create_entry: [ok, err, w, e]; the streams are dropped on the way out
create_entry(w, dir, name, short_name, attrs, first_cluster) ==
    LET raw_entry == DirFileEntryData_set_first_cluster(
                         DirFileEntryData_new(short_name, attrs), first_cluster, w.ft)
        failed(err, w1, stream) ==
            [ok |-> FALSE, err |-> err, w |-> stream_drop(w1, stream, dir.pos)]
        done(l, r) ==
            IF ~r.ok THEN failed(r.err, r.w, r.stream)
            ELSE [ok |-> TRUE, err |-> "", w |-> stream_drop(r.w, r.stream, dir.pos),
                  e |-> [data |-> raw_entry, short_name |-> ShortName_new(raw_entry.name),
                         lfn |-> <<>>,
                         entry_pos |-> entry_abs_pos(r.w, l.stream, r.stream),
                         offset_range |-> <<l.start_pos, stream_pos(r.stream)>>]]
        lfn_done(l) ==
            IF ~l.ok THEN failed(l.err, l.w, l.stream)
            ELSE done(l, stream_write(l.w, l.stream, DirFileEntryData_serialize(raw_entry)))
    IN  IF ~validate_long_name(name) THEN [ok |-> FALSE, err |-> "InvalidInput", w |-> w]
        ELSE lfn_done(create_lfn_entries(w, dir, name, short_name))

\* DirEntry::to_file with the position of the entry: [F, pos]
DirEntry_to_file(w, e) == [F |-> to_file(e.data, w.ft), pos |-> e.entry_pos]

\* The generator find_entry feeds on the last component of a path
path_gen(path) ==
    IF Len(path) > 1 THEN NoGen ELSE ShortNameGenerator_new(Head(path), FALSE)

\* Dir::create_file: [ok, err, w, h]; a path is the sequence of its
\* components, as split_path takes them one by one
RECURSIVE create_file(_, _, _)
create_file(w, dir, path) ==
    LET name == Head(path)
        made(r) == IF ~r.ok THEN r
                   ELSE [ok |-> TRUE, err |-> "", w |-> r.w, h |-> DirEntry_to_file(r.w, r.e)]
        named(short_name) ==
            IF short_name = AlreadyExists
            THEN [ok |-> FALSE, err |-> "AlreadyExists", w |-> w]
            ELSE made(create_entry(w, dir, name, short_name, 0, None))
        found(r) ==
            IF Len(path) > 1
            THEN IF ~r.found THEN [ok |-> FALSE, err |-> "NotFound", w |-> w]
                 ELSE create_file(w, to_dir(w, r.e), Tail(path))
            ELSE IF r.found
            THEN [ok |-> TRUE, err |-> "", w |-> w, h |-> DirEntry_to_file(w, r.e)]
            ELSE named(generate(r.gen))
    IN  found(find_entry(w, dir, name, path_gen(path)))

\* create_dir that validates the name before it allocates the cluster
create_dir_alloc_checked(w, name) ==
    IF validate_long_name(name)
    THEN FileSystem_alloc_cluster(w.m, w.fi, w.ft, w.ef, None)
    ELSE [ok |-> TRUE, m |-> w.m, cluster |-> None, fi |-> w.fi]

\* create_dir, the allocation of the cluster for the data of the directory
create_dir_alloc(w, name) == FileSystem_alloc_cluster(w.m, w.fi, w.ft, w.ef, None)

\* create_dir, the three entries one after the other: the entry of the new
\* directory in its parent, then "." and ".." in the new directory
RECURSIVE create_dir_entries(_, _, _, _, _, _, _)
create_dir_entries(w, dir, new_dir, k, name, short_name, cluster) ==
    LET dot == IF k = 2 THEN <<46>> ELSE <<46, 46>>
        next(r) ==
            IF ~r.ok THEN r
            ELSE IF k = 3 THEN [ok |-> TRUE, err |-> "", w |-> r.w, dir |-> new_dir]
            ELSE create_dir_entries(r.w, dir, IF k = 1 THEN to_dir(r.w, r.e) ELSE new_dir,
                                    k + 1, name, short_name, cluster)
    IN  next(IF k = 1
             THEN create_entry(w, dir, name, short_name, FileAttributes_DIRECTORY, cluster)
             ELSE create_entry(w, new_dir, dot, generate(ShortNameGenerator_new(dot, FALSE)),
                               FileAttributes_DIRECTORY,
                               IF k = 2 THEN cluster ELSE dir.stream.F.first_cluster))

\* Dir::create_dir: [ok, err, w, dir]
RECURSIVE create_dir(_, _, _)
create_dir(w, dir, path) ==
    LET name == Head(path)
        allocated(short_name, alloc) ==
            IF ~alloc.ok THEN [ok |-> FALSE, err |-> "NotEnoughSpace", w |-> w]
            ELSE IF short_name = AlreadyExists
            THEN [ok |-> FALSE, err |-> "AlreadyExists",
                  w |-> [w EXCEPT !.m = alloc.m, !.fi = alloc.fi]]
            ELSE create_dir_entries([w EXCEPT !.m = alloc.m, !.fi = alloc.fi], dir, dir, 1,
                                    name, short_name, alloc.cluster)
        found(r) ==
            IF Len(path) > 1
            THEN IF ~r.found THEN [ok |-> FALSE, err |-> "NotFound", w |-> w]
                 ELSE create_dir(w, to_dir(w, r.e), Tail(path))
            ELSE IF r.found THEN [ok |-> TRUE, err |-> "", w |-> w, dir |-> to_dir(w, r.e)]
            ELSE allocated(generate(r.gen), create_dir_alloc(w, name))
    IN  found(find_entry(w, dir, name, path_gen(path)))

\* Dir::is_empty
is_empty(w, dir) ==
    LET special(entries) ==
            \A k \in 1 .. Len(entries) : file_name(entries[k]) \in {<<46>>, <<46, 46>>}
    IN  special(Dir_iter(w, dir))

\* remove, the marking of the records of an entry: [ok, err, w, stream]
RECURSIVE remove_records(_, _, _)
remove_records(w, stream, num) ==
    IF num = 0 THEN [ok |-> TRUE, err |-> "", w |-> w, stream |-> stream]
    ELSE LET wrote(r) == IF ~r.ok THEN r ELSE remove_records(r.w, r.stream, num - 1)
             back(entry, s) ==
                 IF ~s.ok THEN [ok |-> FALSE, err |-> "InvalidInput", w |-> w,
                                stream |-> s.stream]
                 ELSE wrote(stream_write(w, s.stream,
                                         DirEntryData_serialize(set_deleted(entry))))
             read(r) == back(IF r.eof THEN DirFileEntryData_default
                             ELSE DirEntryData_deserialize(r.raw),
                             stream_seek(w, r.stream, [from |-> "Current", x |-> -1]))
         IN  read(stream_read(w, stream))

\* The error of the removal of a directory that is not empty
RemoveNonEmptyError == "NotFound"

\* Dir::remove: [ok, err, w]
RECURSIVE remove(_, _, _)
remove(w, dir, path) ==
    LET name == Head(path)
        marked(r) == [ok |-> r.ok, err |-> r.err, w |-> stream_drop(r.w, r.stream, dir.pos)]
        sought(w1, e, s) ==
            IF ~s.ok THEN [ok |-> FALSE, err |-> "InvalidInput", w |-> w1]
            ELSE marked(remove_records(w1, s.stream, e.offset_range[2] - e.offset_range[1]))
        freed(w1, e) ==
            sought(w1, e, stream_seek(w1, dir.stream, [from |-> "Start", x |-> e.offset_range[1]]))
        free(e, r) == freed([w EXCEPT !.m = r.m, !.fi = r.fi], e)
        final(e) ==
            IF is_dir(e.data) /\ ~is_empty(w, to_dir(w, e))
            THEN [ok |-> FALSE, err |-> RemoveNonEmptyError, w |-> w]
            ELSE IF DirEntry_first_cluster(w, e) # None
            THEN free(e, FileSystem_free_cluster_chain(w.m, w.fi, w.ft, w.ef,
                                                       DirEntry_first_cluster(w, e)))
            ELSE freed(w, e)
        found(r) ==
            IF ~r.found THEN [ok |-> FALSE, err |-> "NotFound", w |-> w]
            ELSE IF Len(path) > 1 THEN remove(w, to_dir(w, r.e), Tail(path))
            ELSE final(r.e)
    IN  found(find_entry(w, dir, name, NoGen))

\* Dir::open_file: [ok, err, h]
RECURSIVE open_file(_, _, _)
open_file(w, dir, path) ==
    LET found(r) ==
            IF ~r.found THEN [ok |-> FALSE, err |-> "NotFound"]
            ELSE IF Len(path) > 1 THEN open_file(w, to_dir(w, r.e), Tail(path))
            ELSE [ok |-> TRUE, err |-> "", h |-> DirEntry_to_file(w, r.e)]
    IN  found(find_entry(w, dir, Head(path), NoGen))

\* The drop of a file handle: the entry is flushed at its recorded position
handle_drop(w, h) ==
    IF h.F.entry.dirty
    THEN record_write(w, h.pos, DirFileEntryData_serialize(h.F.entry.data))
    ELSE w

\* open_file(path), seek(End(0)), write_all of one block, and the drop of the
\* handle: [ok, err, w].  The caller leaves a directory alone
append_file(w, path, block) ==
    LET wrote(h, r) ==
            [ok |-> r.ok, err |-> IF r.ok THEN "" ELSE "NotEnoughSpace",
             w |-> handle_drop(r.w, [h EXCEPT !.F = r.F])]
        opened(o) ==
            IF ~o.ok THEN [ok |-> FALSE, err |-> o.err, w |-> w]
            ELSE IF is_dir(o.h.F.entry.data) THEN [ok |-> FALSE, err |-> "IsDir", w |-> w]
            ELSE wrote(o.h, write_all(w, File_seek(w, o.h.F, [from |-> "End", x |-> 0]).F,
                                      <<block>>))
    IN  opened(open_file(w, root_dir, path))

----------------------------------------------------------------------------
\* SpecDir: files and directories are created, written and removed by path
\* on a FAT12 volume.

\* The records of the root directory region
RootEntries == 6

\* The operations of a behaviour
MaxDirOps == 3

\* Names: "a", "b", and the invalid names "" and "a:b"
NameA == <<97>>
NameB == <<98>>
InvalidNames == {<<>>, <<97, 58, 98>>}

DirPaths == {<<NameA>>, <<NameB>>, <<NameA, NameB>>}
\* split_path trims the separators: only a whole path can be empty
InvalidPaths == {<<n>> : n \in InvalidNames} \cup {<<NameA, <<97, 58, 98>>>>}

\* One block of file data: the letter A and zeros
Block == [i \in 1 .. DIR_ENTRY_SIZE |-> IF i = 1 THEN 65 ELSE 0]

\* The volume right after format: FAT12, every cluster free, the root
\* directory and the clusters zeroed
FormattedWorld ==
    [ft |-> 12, ef |-> 0,
     m |-> [fat |-> FatRegion(12, LayoutRaws(12, <<>>)), status |-> 0, bpb |-> 0, cur |-> 0,
            tr |-> <<>>],
     fi |-> FileSystem_new_fs_info(12, [free |-> None, next |-> None], 0),
     data |-> [c \in Clusters |-> [i \in 1 .. ClusterSize |-> ZeroRecord]],
     ds |-> [i \in 1 .. RootEntries |-> ZeroRecord]]

\* A behaviour starts on one of the volumes worlds with one of the records
\* hists of what was done
InitDirOn(worlds, hists) ==
    /\ NoDevice
    /\ mountFat = FormattedWorld.m.fat
    /\ \E w \in worlds :
          /\ fatType = w.ft
          /\ extFlags = w.ef
          /\ fat = w.m.fat
          /\ diskStatus = w.m.status
          /\ bpbStatus = w.m.bpb
          /\ curFlags = w.m.cur
          /\ fsInfo = w.fi
          /\ dirents = w.ds
          /\ data = w.data
    /\ diskFsInfo = [free |-> None, next |-> None]
    /\ mounted = TRUE
    /\ devTrace = <<>>
    /\ files = <<>>
    /\ hist \in hists

InitDir ==
    InitDirOn({FormattedWorld}, {[op |-> "", path |-> <<>>, ok |-> TRUE, err |-> "", n |-> 0]})

DirDone(op, path, r) ==
    /\ CommitWorld(r.w)
    /\ hist' = [op |-> op, path |-> path, ok |-> r.ok, err |-> r.err, n |-> hist.n + 1]
    /\ UNCHANGED <<fileFrame, files>>

\* Dir::create_file(path) on the root directory; the handle is dropped
CreateFile(path) ==
    /\ hist.n < MaxDirOps
    /\ \E r \in {create_file(World, root_dir, path)} : DirDone("create_file", path, r)

\* Dir::create_dir(path) on the root directory
CreateDir(path) ==
    /\ hist.n < MaxDirOps
    /\ \E r \in {create_dir(World, root_dir, path)} : DirDone("create_dir", path, r)

\* Dir::remove(path) on the root directory
Remove(path) ==
    /\ hist.n < MaxDirOps
    /\ \E r \in {remove(World, root_dir, path)} : DirDone("remove", path, r)

\* A block is appended to the file at path
AppendFile(path) ==
    /\ hist.n < MaxDirOps
    /\ \E r \in {append_file(World, path, Block)} : DirDone("append", path, r)

NextDir ==
    \/ \E path \in DirPaths \cup InvalidPaths : CreateFile(path)
    \/ \E path \in DirPaths \cup InvalidPaths : CreateDir(path)
    \/ \E path \in DirPaths : Remove(path)
    \/ \E path \in DirPaths : AppendFile(path)

SpecDir == InitDir /\ [][NextDir]_vars

\* The directories of a path before its last component resolve
ParentResolves(path) ==
    Len(path) = 1 \/ find_entry(World, root_dir, path[1], NoGen).found

\* The FAT, the root directory and the clusters are after the step what they
\* were before
VolumeUnchanged == fat' = fat /\ dirents' = dirents /\ data' = data /\ fsInfo' = fsInfo

\* C27: create_file and create_dir whose last path component is an invalid
\* long name fail with InvalidInput and leave the volume as it was: no
\* record is written, no cluster is allocated or left marked in the FAT.
C27_InvalidNameLeavesVolume ==
    [][\A path \in InvalidPaths :
          (ParentResolves(path) /\ (CreateFile(path) \/ CreateDir(path)))
              => (~hist'.ok /\ hist'.err = "InvalidInput" /\ VolumeUnchanged)]_vars

\* create_file with an invalid last component fails with InvalidInput and
\* leaves the volume as it was; create_dir fails with InvalidInput too
C27_CreateFileHalf ==
    [][\A path \in InvalidPaths :
          /\ (ParentResolves(path) /\ CreateFile(path))
                 => (~hist'.ok /\ hist'.err = "InvalidInput" /\ VolumeUnchanged)
          /\ (ParentResolves(path) /\ CreateDir(path) /\ hist'.err # "NotEnoughSpace")
                 => (~hist'.ok /\ hist'.err = "InvalidInput")]_vars

\* The entries of the directory a path of one component names, <<>> when it
\* names no directory
EntriesOfDirAt(path) ==
    LET listed(r) ==
            IF Len(path) = 1 /\ r.found /\ is_dir(r.e.data)
            THEN Dir_iter(World, to_dir(World, r.e)) ELSE <<>>
    IN  listed(find_entry(World, root_dir, path[1], NoGen))

\* The path names a directory with an entry other than "." and ".."
NonEmptyDirAt(path) ==
    \E k \in 1 .. Len(EntriesOfDirAt(path)) :
        file_name(EntriesOfDirAt(path)[k]) \notin {<<46>>, <<46, 46>>}

\* C24: remove of a directory that holds an entry other than "." and ".."
\* fails with DirectoryIsNotEmpty and leaves the volume as it was: no FAT
\* entry is freed and no record is marked deleted.
C24_NonEmptyDirectoryKept ==
    [][\A path \in DirPaths :
          (NonEmptyDirAt(path) /\ Remove(path))
              => (~hist'.ok /\ hist'.err = "DirectoryIsNotEmpty" /\ VolumeUnchanged)]_vars

\* remove of a directory that is not empty fails and leaves the volume as it
\* was
C24_FrameHalf ==
    [][\A path \in DirPaths :
          (NonEmptyDirAt(path) /\ Remove(path)) => (~hist'.ok /\ VolumeUnchanged)]_vars

\* remove has been refused on a directory that is not empty
C24_Refused ==
    /\ hist.op = "remove" /\ ~hist.ok /\ hist.err = RemoveNonEmptyError
    /\ NonEmptyDirAt(hist.path)

\* The volume after the step
WorldAfter == WorldOf(fat', data', dirents')

\* The directory a path leads into and the entry it names there: [found,
\* dir, e]
RECURSIVE Target(_, _, _)
Target(w, dir, path) ==
    LET named(r) ==
            IF ~r.found THEN [found |-> FALSE]
            ELSE IF Len(path) > 1 THEN Target(w, to_dir(w, r.e), Tail(path))
            ELSE [found |-> TRUE, dir |-> dir, e |-> r.e]
    IN  named(find_entry(w, dir, Head(path), NoGen))

\* What a listing of a directory shows of its entries: name and size
Listing(w, dir) ==
    LET shown(entries) ==
            [k \in 1 .. Len(entries) |-> <<file_name(entries[k]), entries[k].data.size>>]
    IN  shown(Dir_iter(w, dir))

\* A sequence without its k-th element
Without(seq, k) == SubSeq(seq, 1, k - 1) \o SubSeq(seq, k + 1, Len(seq))

\* The number of the entry e in the listing of a directory
IndexIn(w, dir, e) ==
    CHOOSE k \in 1 .. Len(Dir_iter(w, dir)) : Dir_iter(w, dir)[k].entry_pos = e.entry_pos

\* stats().free_clusters()
free_clusters(w) == FileSystem_stats(w.m.fat, w.fi, w.ft, w.ef).free

\* The number of clusters of the chain of an entry
ChainLength(w, e) ==
    IF DirEntry_first_cluster(w, e) = None THEN 0
    ELSE Len(Chain(w.m.fat, DirEntry_first_cluster(w, e)))

\* A successful removal of the entry t.e of the directory t.dir has done
\* what remove is to do
Removed(t) ==
    /\ free_clusters(WorldAfter) = free_clusters(World) + ChainLength(World, t.e)
    /\ \A k \in t.e.offset_range[1] .. t.e.offset_range[2] - 1 :
           Dir_records(WorldAfter, t.dir)[k + 1][1] = DIR_ENTRY_DELETED_FLAG
    /\ Listing(WorldAfter, t.dir)
           = Without(Listing(World, t.dir), IndexIn(World, t.dir, t.e))

C25_OtherEntryKept ==
    /\ hist.op = "remove" /\ hist.ok /\ hist.path = <<NameA>>
    /\ dirents[1][1] = DIR_ENTRY_DELETED_FLAG
    /\ Listing(World, root_dir) = <<<<NameB, 0>>>>

----------------------------------------------------------------------------
\* SpecName: an entry is created under a long name in the root directory of
\* a volume, as a file or as a directory, and the root directory is listed.

\* Long names of 1 to 255 UTF-16 units made of characters validate_long_name
\* lets pass: one letter, 13, 14 and 26 letters (one fragment filled, two
\* fragments, two fragments filled), an upper-case letter, a letter with an
\* accent, a space before and a dot after a letter, U+FFFF alone and after a
\* letter, and 86 euro signs (86 units, 258 bytes of UTF-8)
Letters(n) == [i \in 1 .. n |-> 96 + ((i - 1) % 26) + 1]
LongNamesToCreate ==
    {Letters(1), Letters(LFN_PART_LEN), Letters(LFN_PART_LEN + 1), Letters(2 * LFN_PART_LEN),
     <<65>>, <<233>>, <<32, 97>>, <<97, 46>>, <<65535>>, <<97, 65535>>,
     [i \in 1 .. 86 |-> 8364]}

\* The entry is created on the formatted volume or on one where the files
\* "b" and "c" have been created and "b" removed before
NameC == <<99>>
MaxPrepare == 3

\* The root directory of the volume holds the 86 euro signs and their entry
LongRootEntries == 8
FormattedLongRoot == [FormattedWorld EXCEPT !.ds = [i \in 1 .. LongRootEntries |-> ZeroRecord]]

\* room: the root directory had a run of free records for the name and its
\* entry when the creation began
InitName ==
    InitDirOn({FormattedLongRoot},
              {[phase |-> "new", name |-> n, room |-> TRUE, ok |-> TRUE, err |-> "",
                names |-> <<>>, n |-> 0] : n \in LongNamesToCreate})

\* The records a name takes: its fragments and the entry
RecordsOf(name) == (Len(encode_utf16(name)) + LFN_PART_LEN - 1) \div LFN_PART_LEN + 1

\* The root directory has a run of records, deleted or never used, for the
\* name and its entry
RoomFor(name) ==
    \E i \in 1 .. Len(dirents) - RecordsOf(name) + 1 :
        \A j \in i .. i + RecordsOf(name) - 1 : dirents[j][1] \in {0, DIR_ENTRY_DELETED_FLAG}

PrepareDone(r) ==
    /\ r.ok
    /\ CommitWorld(r.w)
    /\ hist' = [hist EXCEPT !.n = hist.n + 1]
    /\ UNCHANGED <<fileFrame, files>>

\* Dir::create_file of another name on the root directory
PrepareCreate(name) ==
    /\ hist.phase = "new" /\ hist.n < MaxPrepare
    /\ \E r \in {create_file(World, root_dir, <<name>>)} : PrepareDone(r)

\* Dir::remove of another name on the root directory
PrepareRemove(name) ==
    /\ hist.phase = "new" /\ hist.n < MaxPrepare
    /\ \E r \in {remove(World, root_dir, <<name>>)} : PrepareDone(r)

NameDone(r) ==
    /\ CommitWorld(r.w)
    /\ hist' = [hist EXCEPT !.phase = "created", !.room = RoomFor(hist.name), !.ok = r.ok,
                             !.err = r.err]
    /\ UNCHANGED <<fileFrame, files>>

\* Dir::create_file(name) on the root directory
CreateNamedFile ==
    /\ hist.phase = "new"
    /\ \E r \in {create_file(World, root_dir, <<hist.name>>)} : NameDone(r)

\* Dir::create_dir(name) on the root directory
CreateNamedDir ==
    /\ hist.phase = "new"
    /\ \E r \in {create_dir(World, root_dir, <<hist.name>>)} : NameDone(r)

\* Dir::iter on the root directory, file_name of every entry
ListRoot ==
    /\ hist.phase = "created"
    /\ \E entries \in {Dir_iter(World, root_dir)} :
           hist' = [hist EXCEPT !.phase = "listed",
                                !.names = [k \in 1 .. Len(entries) |-> file_name(entries[k])]]
    /\ UNCHANGED <<fileFrame, files, fat, diskStatus, curFlags, devTrace, fsInfo, data, dirents>>

NextName ==
    \/ \E name \in {NameB, NameC} : PrepareCreate(name)
    \/ PrepareRemove(NameB)
    \/ CreateNamedFile
    \/ CreateNamedDir
    \/ ListRoot

SpecName == InitName /\ [][NextName]_vars

\* C22: for every long name of 1 to 255 UTF-16 units made of allowed
\* characters the creation of an entry of that name succeeds, and the listing
\* of the directory that follows yields an entry whose file_name() is the
\* name.
C22_LongNameRoundTrip ==
    /\ (hist.phase # "new" /\ hist.room) => hist.ok
    /\ (hist.phase = "listed" /\ hist.room)
           => \E k \in 1 .. Len(hist.names) : hist.names[k] = hist.name

\* The names that end in U+FFFF or take more than 255 bytes of UTF-8
BrokenNames == {n \in LongNamesToCreate : n[Len(n)] = 65535 \/ str_len(n) > 255}

\* The creation and the listing of the other names
C22_RoundTripOfOthers ==
    hist.name \notin BrokenNames
        => /\ (hist.phase # "new" /\ hist.room) => hist.ok
           /\ (hist.phase = "listed" /\ hist.room)
                  => \E k \in 1 .. Len(hist.names) : hist.names[k] = hist.name

\* A name of 86 units for which the root directory had room is refused
C22_ValidNameRefused ==
    /\ hist.phase = "created" /\ hist.room /\ ~hist.ok /\ hist.err = "InvalidInput"
    /\ Len(encode_utf16(hist.name)) = 86

\* The listing after the creation of "a" followed by U+FFFF has "a"
C22_TrailingUnitLost ==
    /\ hist.phase = "listed" /\ hist.ok /\ hist.name = <<97, 65535>>
    /\ hist.names = <<<<97>>>>

\* A name of two fragments has been created after a run of deleted records
\* too short for it and is listed
C22_TwoFragmentsListed ==
    /\ hist.phase = "listed" /\ hist.ok /\ hist.name = Letters(2 * LFN_PART_LEN)
    /\ dirents[1][1] = DIR_ENTRY_DELETED_FLAG
    /\ hist.names = <<NameC, hist.name>>

----------------------------------------------------------------------------
\* Dir::rename, after the steps the specification gives for it, and
\* SpecRename: files and directories are created, written and renamed by
\* path

\* An entry of the new name that starts afresh
renamed_fresh(d, new_name) == DirFileEntryData_new(new_name, d.attrs)

\* DirFileEntryData::renamed
renamed(d, new_name) == [d EXCEPT !.name = new_name]

\* Step 3: the fragments of the long name and the given short-name record are
\* written to a run of free records of the directory: [ok, err, w]
write_entry(w, dir, name, raw_entry) ==
    LET done(r) == [ok |-> r.ok, err |-> r.err, w |-> stream_drop(r.w, r.stream, dir.pos)]
        lfn_done(l) ==
            IF ~l.ok THEN done(l)
            ELSE done(stream_write(l.w, l.stream, DirFileEntryData_serialize(raw_entry)))
    IN  lfn_done(create_lfn_entries(w, dir, name, raw_entry.name))

\* Step 4: the records of the entry e of the directory are marked deleted:
\* [ok, err, w]
delete_entry(w, dir, e) ==
    LET marked(r) == [ok |-> r.ok, err |-> r.err, w |-> stream_drop(r.w, r.stream, dir.pos)]
        sought(s) ==
            IF ~s.ok THEN [ok |-> FALSE, err |-> "InvalidInput", w |-> w]
            ELSE marked(remove_records(w, s.stream, e.offset_range[2] - e.offset_range[1]))
    IN  sought(stream_seek(w, dir.stream, [from |-> "Start", x |-> e.offset_range[1]]))

\* No entry read yet
NoEntry == [entry_pos |-> None]

\* The steps of rename: both paths are resolved one component at a time, the
\* source first; e is the entry of the source once it has been read.  The
\* short name is generated against the names of the destination directory;
\* it differs from the old one whenever the two directories are the same,
\* the old one being among those names, so that the new records are always
\* written and the old ones deleted.  A destination that exists is refused
RECURSIVE rename_steps(_, _, _, _, _, _)
rename_steps(w, src_dir, src_path, dst_dir, dst_path, e) ==
    LET on_src == e = NoEntry
        name == IF on_src THEN Head(src_path) ELSE Head(dst_path)
        failed(err) == [ok |-> FALSE, err |-> err, w |-> w]
        written(r) == IF ~r.ok THEN r ELSE delete_entry(r.w, src_dir, e)
        moved(short_name) ==
            IF short_name = AlreadyExists THEN failed("AlreadyExists")
            ELSE written(write_entry(w, dst_dir, name, renamed(e.data, short_name)))
        found(r) ==
            IF on_src
            THEN IF ~r.found THEN failed("NotFound")
                 ELSE IF Len(src_path) > 1
                 THEN rename_steps(w, to_dir(w, r.e), Tail(src_path), dst_dir, dst_path, NoEntry)
                 ELSE rename_steps(w, src_dir, src_path, dst_dir, dst_path, r.e)
            ELSE IF Len(dst_path) > 1
            THEN IF ~r.found THEN failed("NotFound")
                 ELSE rename_steps(w, src_dir, src_path, to_dir(w, r.e), Tail(dst_path), e)
            ELSE IF r.found THEN failed("AlreadyExists")
            ELSE moved(generate(r.gen))
    IN  found(find_entry(w, IF on_src THEN src_dir ELSE dst_dir, name,
                         IF on_src THEN NoGen ELSE path_gen(dst_path)))

\* Dir::rename(src_path, dst_dir, dst_path): [ok, err, w]
rename(w, src_dir, src_path, dst_dir, dst_path) ==
    IF ~validate_long_name_units(dst_path[Len(dst_path)])
    THEN [ok |-> FALSE, err |-> "InvalidInput", w |-> w]
    ELSE rename_steps(w, src_dir, src_path, dst_dir, dst_path, NoEntry)

DstPaths == {<<NameC>>, <<NameA, NameC>>, <<NameB>>, <<NameB, NameC>>}

Rename(src, dst) ==
    /\ hist.n < MaxDirOps
    /\ \E r \in {rename(World, root_dir, src, root_dir, dst)} :
           DirDone("rename", <<src, dst>>, r)

NextRename ==
    \/ \E path \in DirPaths : CreateFile(path)
    \/ \E path \in DirPaths : CreateDir(path)
    \/ \E path \in DirPaths : AppendFile(path)
    \/ \E src \in DirPaths, dst \in DstPaths : Rename(src, dst)

SpecRename == InitDir /\ [][NextRename]_vars

\* The directory a path leads to; the root directory for the empty path
DirAt(w, path) ==
    IF path = <<>> THEN root_dir ELSE to_dir(w, Target(w, root_dir, path).e)

\* The path of the directory of the last component of a path
Parent(path) == SubSeq(path, 1, Len(path) - 1)

\* The names and sizes a listing of a directory shows
EntrySet(w, dir) == {Listing(w, dir)[k] : k \in 1 .. Len(Listing(w, dir))}

\* The clusters of the chain of the directory a path leads to; none for the
\* root region
DirClusters(w, path) ==
    IF path = <<>> THEN 0 ELSE ChainLength(w, Target(w, root_dir, path).e)

\* A path leads to a directory
IsDirAt(w, path) ==
    path = <<>> \/ (Target(w, root_dir, path).found /\ is_dir(Target(w, root_dir, path).e.data))

\* src names an entry of a directory, and dst a name in a directory that is
\* neither the entry src names nor below it
Renamable(src, dst) ==
    /\ IsDirAt(World, Parent(src))
    /\ IsDirAt(World, Parent(dst))
    /\ Target(World, root_dir, src).found
    /\ ~(Len(src) <= Len(dst) /\ SubSeq(dst, 1, Len(src)) = src)

\* The entries of a directory that a lookup of the name matches
Matching(w, dir, name) ==
    {k \in 1 .. Len(Dir_iter(w, dir)) :
        eq_ignore_ascii_case(file_name(Dir_iter(w, dir)[k]), name)}

\* The directory of src holds one entry of its name.  A create whose short
\* record is the last of a cluster of a subdirectory leaves a copy of that
\* record in the last record of the cluster before it (abs_pos, file.rs);
\* the name is then matched twice
ListedOnce(src) ==
    Cardinality(Matching(World, DirAt(World, Parent(src)), src[Len(src)])) = 1

\* What a successful rename leaves of the entry and of the two directories:
\* the destination names an entry that is the source entry but for its name,
\* the source names none, and the other entries of both directories are
\* listed as they were
RenamedEntry(src, dst) ==
    LET s == Target(World, root_dir, src)
        t == Target(WorldAfter, root_dir, dst)
        old == <<src[Len(src)], s.e.data.size>>
        new == <<dst[Len(dst)], s.e.data.size>>
        kept(path) ==
            EntrySet(WorldAfter, DirAt(WorldAfter, path))
                    \ (IF path = Parent(dst) THEN {new} ELSE {})
                = EntrySet(World, DirAt(World, path))
                    \ (IF path = Parent(src) THEN {old} ELSE {})
    IN  /\ t.found
        /\ file_name(t.e) = dst[Len(dst)]
        /\ renamed(t.e.data, s.e.data.name) = s.e.data
        /\ ~Target(WorldAfter, root_dir, src).found
        /\ kept(Parent(src))
        /\ kept(Parent(dst))

\* The step is a successful rename of src to dst
RenameDone(src, dst) ==
    /\ hist'.n = hist.n + 1
    /\ hist'.op = "rename" /\ hist'.ok /\ hist'.path = <<src, dst>>

C26_Grown ==
    /\ hist.op = "rename" /\ hist.ok /\ hist.path = <<<<NameB>>, <<NameA, NameC>>>>
    /\ Target(World, root_dir, <<NameA, NameC>>).found
    /\ DirClusters(World, <<NameA>>) = TotalClusters
    /\ free_clusters(World) = 0

----------------------------------------------------------------------------
\* SpecNewDir: a file is created, written and removed, the volume is mounted
\* anew and directories are created in the root directory, so that a
\* directory may get a cluster a file has left its bytes in

MaxNewDirOps == 5
NewDirPaths == {<<NameB>>, <<NameC>>}

NewDirDone(op, path, r) ==
    /\ CommitWorld(r.w)
    /\ hist' = [op |-> op, path |-> path, ok |-> r.ok, err |-> r.err, n |-> hist.n + 1]
    /\ UNCHANGED <<fileFrame, files>>

\* Dir::create_file(path) on the root directory
NewFile(path) ==
    /\ hist.n < MaxNewDirOps
    /\ \E r \in {create_file(World, root_dir, path)} : NewDirDone("create_file", path, r)

\* open_file(path), seek to the end, write_all of a block, drop
NewAppend(path) ==
    /\ hist.n < MaxNewDirOps
    /\ \E r \in {append_file(World, path, Block)} : NewDirDone("append", path, r)

\* Dir::remove(path) on the root directory
NewRemove(path) ==
    /\ hist.n < MaxNewDirOps
    /\ \E r \in {remove(World, root_dir, path)} : NewDirDone("remove", path, r)

\* Dir::create_dir(path) on the root directory
NewDir(path) ==
    /\ hist.n < MaxNewDirOps
    /\ \E r \in {create_dir(World, root_dir, path)} : NewDirDone("create_dir", path, r)

\* FileSystem::unmount and FileSystem::new on the device: the volume is
\* marked clean and the allocation hint starts afresh
NewRemount ==
    /\ hist.n < MaxNewDirOps
    /\ \E m \in {set_dirty_flag(World.m, FALSE)} :
           NewDirDone("remount", <<>>,
                      [ok |-> TRUE, err |-> "",
                       w |-> [World EXCEPT !.m = [m EXCEPT !.cur = FlagsEncode(FlagsDecode(m.status))],
                                           !.fi = FileSystem_new_fs_info(fatType, diskFsInfo,
                                                                         m.status)]])

NextNewDir ==
    \/ NewRemount
    \/ NewFile(<<NameA>>)
    \/ NewAppend(<<NameA>>)
    \/ \E path \in {<<NameA>>} \cup NewDirPaths : NewRemove(path)
    \/ \E path \in NewDirPaths : NewDir(path)

SpecNewDir == InitDir /\ [][NextNewDir]_vars

\* The step is a successful create_dir of a path that named no entry
NewDirMade(path) ==
    /\ hist'.n = hist.n + 1
    /\ hist'.op = "create_dir" /\ hist'.ok /\ hist'.path = path
    /\ ~Target(World, root_dir, path).found

\* The file names a listing of a directory shows
NamesListed(w, dir) == [k \in 1 .. Len(Listing(w, dir)) |-> Listing(w, dir)[k][1]]

\* The records of a directory past those of the entries listed are end
\* markers
EndAfterEntries(w, dir) ==
    LET last(entries) == entries[Len(entries)].offset_range[2]
        ends(records, from) == \A k \in from + 1 .. Len(records) : records[k][1] = 0
    IN  ends(Dir_records(w, dir), last(Dir_iter(w, dir)))

\* C31: after a successful create_dir the listing of the new directory has
\* exactly the two entries "." and "..", whatever the cluster it was given
\* held before, and every record after that of ".." is an end marker.
C31_NewDirectoryListsDots ==
    [][\A path \in NewDirPaths :
          NewDirMade(path)
              => /\ NamesListed(WorldAfter, DirAt(WorldAfter, path)) = <<<<46>>, <<46, 46>>>>
                 /\ EndAfterEntries(WorldAfter, DirAt(WorldAfter, path))]_vars

\* The same of a directory whose cluster held zeros
C31_ZeroedClusterHalf ==
    [][\A path \in NewDirPaths :
          (NewDirMade(path) /\ \A c \in Clusters : Entry(fat, c) # Free \/ data[c][1] = ZeroRecord)
              => /\ NamesListed(WorldAfter, DirAt(WorldAfter, path)) = <<<<46>>, <<46, 46>>>>
                 /\ EndAfterEntries(WorldAfter, DirAt(WorldAfter, path))]_vars

\* A directory has been created on the cluster a removed file left its block
\* in, and lists an entry made of that block before "." and ".."
C31_StaleEntryListed ==
    /\ hist.op = "create_dir" /\ hist.ok /\ hist.path = <<NameB>>
    /\ Len(NamesListed(World, DirAt(World, <<NameB>>))) = 3
    /\ NamesListed(World, DirAt(World, <<NameB>>))[2] = <<46>>
    /\ data[RESERVED_FAT_ENTRIES][1] = Block

----------------------------------------------------------------------------
\* SpecLookup: files are created in the root directory, and a component is
\* looked up there by open_file or by remove

MaxLookupNames == 2
LookupNames == {Letters(1), Letters(LFN_PART_LEN), <<65, 66>>, <<233>>}

\* The short name create_file gives a name in a directory that has no such
\* name yet, as short_file_name shows it
ShortOf(name) == ShortName_new(generate(ShortNameGenerator_new(name, FALSE)))

\* The components looked up: a name as created, in the other case, the short
\* name of the name of 13 letters as it is and in lower case, the capital of
\* the letter with an accent, and a name of no entry
Components ==
    {Letters(1), <<65>>, <<97, 98>>, ShortOf(Letters(LFN_PART_LEN)),
     [i \in 1 .. Len(ShortOf(Letters(LFN_PART_LEN))) |->
         to_ascii_lowercase(ShortOf(Letters(LFN_PART_LEN))[i])],
     <<201>>, <<122>>}

InitLookup ==
    InitDirOn({FormattedWorld},
              {[op |-> "", name |-> <<>>, matches |-> FALSE, ok |-> TRUE, err |-> "", n |-> 0]})

\* DirEntry::eq_name
eq_name(e, name) ==
    \/ eq_ignore_ascii_case(file_name(e), name)
    \/ eq_ignore_ascii_case(e.short_name, name)

\* An entry of the root directory has the long name or the short name name,
\* ignoring case
SomeEntryNamed(name) ==
    LET some(entries) == \E k \in 1 .. Len(entries) : eq_name(entries[k], name)
    IN  some(Dir_iter(World, root_dir))

\* Dir::create_file(name) on the root directory
LookupCreate(name) ==
    /\ hist.op \in {"", "create_file"} /\ hist.n < MaxLookupNames
    /\ \E r \in {create_file(World, root_dir, <<name>>)} :
           /\ CommitWorld(r.w)
           /\ hist' = [hist EXCEPT !.op = "create_file", !.name = name, !.ok = r.ok,
                                   !.err = r.err, !.n = hist.n + 1]
    /\ UNCHANGED <<fileFrame, files>>

\* Dir::open_file(name) on the root directory; the handle is dropped at once
LookupOpen(name) ==
    /\ hist.op \in {"", "create_file"}
    /\ \E r \in {open_file(World, root_dir, <<name>>)} :
           hist' = [hist EXCEPT !.op = "open_file", !.name = name,
                                !.matches = SomeEntryNamed(name), !.ok = r.ok, !.err = r.err]
    /\ UNCHANGED <<fileFrame, files, fat, diskStatus, curFlags, devTrace, fsInfo, data, dirents>>

\* Dir::remove(name) on the root directory
LookupRemove(name) ==
    /\ hist.op \in {"", "create_file"}
    /\ \E r \in {remove(World, root_dir, <<name>>)} :
           /\ CommitWorld(r.w)
           /\ hist' = [hist EXCEPT !.op = "remove", !.name = name,
                                   !.matches = SomeEntryNamed(name), !.ok = r.ok, !.err = r.err]
    /\ UNCHANGED <<fileFrame, files>>

NextLookup ==
    \/ \E name \in LookupNames : LookupCreate(name)
    \/ \E name \in Components : LookupOpen(name)
    \/ \E name \in Components : LookupRemove(name)

SpecLookup == InitLookup /\ [][NextLookup]_vars

\* C32: open_file and remove find an entry when the component equals,
\* ignoring case, its long name or its short name, and return NotFound only
\* when no entry of the directory matches either name.
C32_LookupMatchesEitherName ==
    hist.op \in {"open_file", "remove"}
        => /\ hist.matches => hist.ok
           /\ hist.err = "NotFound" => ~hist.matches

\* The part that holds: a lookup that succeeds has found an entry of that
\* name, and a component no entry matches gives NotFound
C32_FoundOnlyIfNamed ==
    hist.op \in {"open_file", "remove"}
        => /\ hist.ok => hist.matches
           /\ ~hist.matches => hist.err = "NotFound"

\* The short name of an entry that has a long name is not found
C32_ShortNameNotFound ==
    /\ hist.op = "open_file" /\ hist.name = ShortOf(Letters(LFN_PART_LEN))
    /\ hist.matches /\ ~hist.ok /\ hist.err = "NotFound"

\* A name in the other case is found
C32_OtherCaseFound ==
    /\ hist.op = "remove" /\ hist.name = <<97, 98>> /\ hist.matches /\ hist.ok
    /\ dirents[2][1] = DIR_ENTRY_DELETED_FLAG

----------------------------------------------------------------------------
\* SpecAlloc: clusters are allocated on volumes whose clusters are free or
\* the end of a chain, one by one, from every hint a mounted volume can hold

\* Every cluster free or the end of a chain of its own, and the volume whose
\* first cluster is free with the reserved bits of its FAT32 word set
AllocLayouts ==
    {layout \in [1 .. TotalClusters -> {0, -2}] : TRUE} \cup {<<-3>>}

\* The hints: none, what FSInfo holds after validate_and_fix (FAT32), and what
\* an allocation leaves
AllocHints(ft) ==
    {None} \cup (IF ft = 32 THEN 0 .. 2 ELSE {}) \cup (3 .. TotalClusters + RESERVED_FAT_ENTRIES)

InitAlloc ==
    /\ NoDevice
    /\ fatType \in FatTypes
    /\ extFlags = 0
    /\ \E layout \in AllocLayouts : fat = FatRegion(fatType, LayoutRaws(fatType, layout))
    /\ mountFat = fat
    /\ diskStatus = 0
    /\ bpbStatus = 0
    /\ curFlags = FlagsEncode(FlagsDecode(0))
    /\ diskFsInfo = [free |-> None, next |-> None]
    /\ \E h \in AllocHints(fatType) : fsInfo = [FsInfoDefault EXCEPT !.next = h]
    /\ mounted = TRUE
    /\ devTrace = <<>>
    /\ hist = [op |-> "new", arg |-> None, hint |-> None, res |-> None]
    /\ NoFiles

\* FileSystem::alloc_cluster(prev), the hint it started from recorded
AllocFromHint(prev) ==
    /\ \E r \in {FileSystem_alloc_cluster(Dev, fsInfo, fatType, extFlags, prev)} :
           /\ Commit(r.m)
           /\ fsInfo' = r.fi
           /\ hist' = [op |-> "alloc_cluster", arg |-> prev, hint |-> fsInfo.next,
                       res |-> r.cluster]
    /\ UNCHANGED <<gen, dev, bpb, fatType, extFlags, mountFat, bpbStatus, diskFsInfo, mounted,
                   dirents, data, files>>

NextAlloc == \E prev \in {None} \cup Tails(fat) : AllocFromHint(prev)

SpecAlloc == InitAlloc /\ [][NextAlloc]_vars

\* The clusters of lo .. hi - 1 whose entry reads Free
FreeIn(f, lo, hi) == {c \in lo .. hi - 1 : Entry(f, c) = Free}

\* The least element of a set of numbers
Least(S) == CHOOSE c \in S : \A d \in S : c <= d

\* The cluster the search order gives from hint h: None if no cluster is free
FirstFreeFrom(f, h) ==
    LET end_cluster == TotalClusters + RESERVED_FAT_ENTRIES
        start == IF IsSome(h) /\ h \in RESERVED_FAT_ENTRIES .. end_cluster - 1
                 THEN h ELSE RESERVED_FAT_ENTRIES
    IN  IF FreeIn(f, start, end_cluster) # {} THEN Least(FreeIn(f, start, end_cluster))
        ELSE IF FreeIn(f, RESERVED_FAT_ENTRIES, start) # {}
        THEN Least(FreeIn(f, RESERVED_FAT_ENTRIES, start))
        ELSE None

\* C33: with hint h alloc_cluster returns the lowest free cluster of
\* [max(h, 2), total_clusters + 2) if there is one, otherwise the lowest free
\* cluster of [2, h); a missing or out-of-range hint behaves as h = 2; it
\* fails if and only if no entry of [2, total_clusters + 2) reads Free, and
\* then changes no FAT entry.
C33_AllocationOrder ==
    [][hist'.op = "alloc_cluster"
          => /\ hist'.res = FirstFreeFrom(fat, fsInfo.next)
             /\ hist'.res = None
                    <=> FreeIn(fat, RESERVED_FAT_ENTRIES, TotalClusters + RESERVED_FAT_ENTRIES) = {}
             /\ hist'.res = None => fat' = fat]_vars

\* A cluster below the hint has been allocated, the clusters from the hint on
\* being taken
C33_Witness ==
    /\ hist.op = "alloc_cluster"
    /\ hist.res = RESERVED_FAT_ENTRIES
    /\ hist.hint = RESERVED_FAT_ENTRIES + 1
    /\ \A c \in Clusters : Entry(fat, c) = EndOfChain

\* An allocation has failed on a full volume
C33_Full ==
    /\ hist.op = "alloc_cluster" /\ hist.res = None
    /\ \A c \in Clusters : Entry(fat, c) # Free

----------------------------------------------------------------------------
\* The chain operations on their own (Spec)

\* The clusters that follow cluster c in its chain
Successors(f, c) == {Chain(f, c)[k] : k \in 2 .. Len(Chain(f, c))}

\* The step sets the clusters of freed to Free, leaves the entries outside
\* freed and kept as they were, and adds the number of the clusters freed to
\* a known free-cluster count
FreesExactly(freed, kept) ==
    /\ \A x \in freed : Entry(fat', x) = Free
    /\ \A x \in (0 .. TotalClusters + 1) \ (freed \cup kept) : Entry(fat', x) = Entry(fat, x)
    /\ IsSome(fsInfo.free) => fsInfo'.free = fsInfo.free + Cardinality(freed)
    /\ ~IsSome(fsInfo.free) => ~IsSome(fsInfo'.free)

\* C34: truncate_cluster_chain(c) on a well-formed chain leaves the entry of
\* c end-of-chain, sets every former successor of c to Free, changes no other
\* FAT entry, and adds the number of freed clusters to a known free-cluster
\* count; free_cluster_chain(c) does the same but also frees c.
C34_TruncateAndFree ==
    [][/\ hist'.op = "truncate_cluster_chain"
            => /\ Entry(fat', hist'.arg) = EndOfChain
               /\ FreesExactly(Successors(fat, hist'.arg), {hist'.arg})
       /\ hist'.op = "free_cluster_chain"
            => FreesExactly(Successors(fat, hist'.arg) \cup {hist'.arg}, {})]_vars

\* A chain of three clusters has been truncated at its first cluster with the
\* free-cluster count known
C34_Witness ==
    /\ hist.op = "truncate_cluster_chain" /\ hist.res = 2
    /\ Entry(fat, hist.arg) = EndOfChain
    /\ fsInfo.free = TotalClusters - 1

\* A chain of two clusters has been freed with the free-cluster count known
C34_Freed ==
    /\ hist.op = "free_cluster_chain" /\ hist.res = 2
    /\ fsInfo.free = TotalClusters

----------------------------------------------------------------------------
\* The walks of a cluster chain, one loop iteration at a time, over every FAT
\* content (cycles included) and with a FAT entry whose read fails
\* (table.rs, ClusterIterator; file.rs, the walk of seek)

MaxWalkSteps == 6

\* Every cluster free, the end of a chain, or followed by any cluster
WalkLayouts == [1 .. TotalClusters -> {0, -2} \cup Clusters]

\* The clusters whose FAT entry cannot be read: none or one
BadReads == {{}} \cup {{c} : c \in Clusters}

\* ClusterIterator::new
ClusterIterator_new(cluster) == [cluster |-> cluster, err |-> FALSE]

\* impl Iterator for ClusterIterator, next(): the iterator after the call and
\* the item it returned ("None", "Ok" for Some(Ok(n)), "Err" for Some(Err(e)))
Iterator_next(it, f, s, ft, bad) ==
    IF it.err THEN [it |-> it, item |-> "None"]
    ELSE IF IsSome(it.cluster)
    THEN IF it.cluster \in bad
         THEN [it |-> [it EXCEPT !.err = TRUE], item |-> "Err"]
         ELSE LET next_cluster == get_next_cluster(f, s, ft, it.cluster)
              IN  [it |-> [it EXCEPT !.cluster = next_cluster],
                   item |-> IF IsSome(next_cluster) THEN "Ok" ELSE "None"]
    ELSE [it |-> it, item |-> "None"]

\* write_fat where the read of an entry of bad fails: Fat12::set reads the
\* two bytes it shares with the neighbour entry first, Fat16::set and
\* Fat32::set only write
write_fat_reads(ft, cluster, bad) == ft = 12 /\ cluster \in bad

\* A chain of all clusters, a cycle of two behind a first cluster, a cluster
\* that follows itself, a cycle of all clusters, and two chains
LoopLayouts == {<<3, 4, -2>>, <<3, 4, 3>>, <<2, 0, -2>>, <<3, 4, 2>>, <<-2, 4, -2>>}

InitWalkOn(layouts) ==
    /\ NoDevice
    /\ fatType \in FatTypes
    /\ extFlags = 0
    /\ \E layout \in layouts : fat = FatRegion(fatType, LayoutRaws(fatType, layout))
    /\ mountFat = fat
    /\ diskStatus = 0
    /\ bpbStatus = 0
    /\ curFlags = FlagsEncode(FlagsDecode(0))
    /\ diskFsInfo = [free |-> None, next |-> None]
    /\ fsInfo = FsInfoDefault
    /\ mounted = TRUE
    /\ devTrace = <<>>
    /\ \E bad \in BadReads :
          hist = [op |-> "new", pc |-> "idle", it |-> ClusterIterator_new(None), bad |-> bad,
                  left |-> 0, steps |-> 0, odd |-> FALSE, items |-> <<>>, res |-> ""]
    /\ NoFiles

WalkFrame ==
    UNCHANGED <<gen, dev, bpb, fatType, extFlags, mountFat, bpbStatus, fsInfo, diskFsInfo, mounted,
                devTrace, dirents, data, files>>

\* The turns of the loop are counted up to MaxWalkSteps (hist.steps) and
\* their parity is kept (hist.odd)
Turned(n) == IF n < MaxWalkSteps THEN n + 1 ELSE MaxWalkSteps

\* cluster_iter(cluster) followed by free(), truncate() or the loop of seek
\* over cluster_count clusters
WalkStart(op, cluster, cluster_count) ==
    /\ hist.pc = "idle"
    /\ hist' = [hist EXCEPT !.op = op, !.pc = op, !.it = ClusterIterator_new(cluster),
                            !.left = IF op = "seek" THEN cluster_count ELSE 0]
    /\ UNCHANGED <<fat, diskStatus, curFlags>>
    /\ WalkFrame

\* One turn of the loop of ClusterIterator::free, the iterator's part: next(),
\* its result dropped, and the result of write_fat
FreeTurn ==
    /\ hist.pc = "free"
    /\ IF IsSome(hist.it.cluster)
       THEN LET r == Iterator_next(hist.it, fat, fat_slice(fatType, extFlags), fatType, hist.bad)
            IN  IF write_fat_reads(fatType, hist.it.cluster, hist.bad)
                THEN hist' = [hist EXCEPT !.pc = "done", !.it = r.it, !.res = "Err",
                                          !.steps = Turned(@), !.odd = ~@]
                ELSE hist' = [hist EXCEPT !.it = r.it, !.steps = Turned(@), !.odd = ~@]
       ELSE hist' = [hist EXCEPT !.pc = "done", !.res = "Ok"]

\* write_fat(n, value) of the turn on self.cluster = Some(n)
WalkWrite(value) ==
    IF IsSome(hist.it.cluster) /\ ~write_fat_reads(fatType, hist.it.cluster, hist.bad)
    THEN \E m \in {write_fat(Dev, fat_slice(fatType, extFlags), fatType, hist.it.cluster, value)} :
            /\ fat' = m.fat
            /\ diskStatus' = m.status
            /\ curFlags' = m.cur
    ELSE UNCHANGED <<fat, diskStatus, curFlags>>

\* One turn of the loop of ClusterIterator::free
FreeStep == FreeTurn /\ WalkWrite(Free) /\ WalkFrame

\* ClusterIterator::truncate up to its call of free(), the iterator's part
TruncateTurn ==
    /\ hist.pc = "truncate"
    /\ IF IsSome(hist.it.cluster)
       THEN LET r == Iterator_next(hist.it, fat, fat_slice(fatType, extFlags), fatType, hist.bad)
            IN  IF write_fat_reads(fatType, hist.it.cluster, hist.bad)
                THEN hist' = [hist EXCEPT !.pc = "done", !.it = r.it, !.res = "Err",
                                          !.steps = Turned(@), !.odd = ~@]
                ELSE hist' = [hist EXCEPT !.pc = "free", !.it = r.it, !.steps = Turned(@), !.odd = ~@]
       ELSE hist' = [hist EXCEPT !.pc = "done", !.res = "Ok"]

\* ClusterIterator::truncate up to its call of free()
TruncateStep == TruncateTurn /\ WalkWrite(EndOfChain) /\ WalkFrame

\* One turn of `for i in 0..cluster_count` in seek: the items the iterator
\* yields are recorded
SeekStep ==
    /\ hist.pc = "seek"
    /\ IF hist.left > 0
       THEN LET r == Iterator_next(hist.it, fat, fat_slice(fatType, extFlags), fatType, hist.bad)
            IN  hist' = [hist EXCEPT !.it = r.it,
                                     !.items = Append(@, r.item),
                                     !.steps = Turned(@), !.odd = ~@,
                                     !.left = IF r.item = "Ok" THEN @ - 1 ELSE 0,
                                     !.pc = IF r.item = "Ok" THEN "seek" ELSE "done",
                                     !.res = IF r.item = "Err" THEN "Err"
                                             ELSE IF r.item = "None" THEN "Ok" ELSE @]
       ELSE hist' = [hist EXCEPT !.pc = "done", !.res = "Ok"]
    /\ UNCHANGED <<fat, diskStatus, curFlags>>
    /\ WalkFrame

WalkStarts ==
    \E op \in {"free", "truncate", "seek"} : \E c \in Clusters :
    \E n \in 0 .. TotalClusters + 1 : WalkStart(op, c, n)

NextWalk ==
    \/ WalkStarts
    \/ FreeStep
    \/ TruncateStep
    \/ SeekStep

\* Every FAT content
SpecWalk == InitWalkOn(WalkLayouts) /\ [][NextWalk]_vars

\* The driver is single-threaded and runs a loop it has entered: a step that
\* can be taken is taken
SpecWalkFair ==
    /\ InitWalkOn(LoopLayouts) /\ [][NextWalk]_vars
    /\ WF_hist(WalkStarts) /\ WF_hist(FreeTurn) /\ WF_hist(TruncateTurn) /\ WF_hist(SeekStep)

WalkStarted == hist.pc # "idle"
WalkReturned == hist.pc = "done"

\* C35: every chain operation returns after finitely many steps with a result
\* or an I/O error, for every FAT content: free, truncate and the iteration
\* of seek terminate also when a FAT read fails in the middle of the walk
\* and when the chain contains a cycle.
C35_ChainWalksReturn == WalkStarted ~> WalkReturned

\* C35, the part that holds: when every FAT entry can be read, or the FAT is
\* a FAT12 (whose write reads first), or the operation is the walk of seek,
\* the operation returns, on chains with a cycle as well
C35_ReturnsUnlessReadFailsInFree ==
    (WalkStarted /\ (hist.bad = {} \/ fatType = 12 \/ hist.op = "seek")) ~> WalkReturned

\* C35, the iterator: it yields Err at most once, as its last item
C35_ErrOnceThenEnd ==
    \A i \in 1 .. Len(hist.items) : hist.items[i] = "Err" => i = Len(hist.items) /\ hist.pc = "done"

\* free() in its loop after a failed read: the iterator has latched the
\* error, its cluster is still there, and the loop has turned MaxWalkSteps
\* times
C35_FreeSpins ==
    /\ hist.pc = "free" /\ hist.it.err /\ IsSome(hist.it.cluster)
    /\ hist.steps = MaxWalkSteps

\* free() returns on a chain that ends in a cycle
C35_CycleFreed ==
    /\ hist.op = "free" /\ hist.pc = "done" /\ hist.res = "Ok" /\ hist.bad = {}
    /\ hist.steps = TotalClusters + 1

\* seek returns the error of the failed read
C35_SeekErr == hist.op = "seek" /\ hist.pc = "done" /\ hist.res = "Err" /\ Len(hist.items) > 1

----------------------------------------------------------------------------
\* SpecSectors: format_bpb on volume sizes around the sizes at which the
\* number of sectors per FAT changes, for each FAT variant

\* The windows of total_sectors; each is SectorWindow sectors wide
SectorWindow == 300
SectorCounts ==
    (2000 .. 2000 + SectorWindow) \cup (5100 .. 5100 + SectorWindow)
        \cup (66500 .. 66500 + SectorWindow)

SectorOptions ==
    {[bytes_per_sector |-> bps, total_sectors |-> ts, bytes_per_cluster |-> bpc,
      fat_type |-> ft, root_entries |-> None, media |-> None, sectors_per_track |-> None,
      heads |-> None, drive_num |-> None, volume_id |-> None, volume_label |-> <<>>] :
        bps \in {None, 4096}, ts \in SectorCounts, bpc \in {None, 512, 4096},
        ft \in {None} \cup FatTypes}

InitSectors ==
    /\ NoDevice
    /\ fatType = 0
    /\ extFlags = 0
    /\ fat = <<>>
    /\ mountFat = <<>>
    /\ diskStatus = 0
    /\ bpbStatus = 0
    /\ curFlags = 0
    /\ diskFsInfo = [free |-> None, next |-> None]
    /\ fsInfo = FsInfoDefault
    /\ mounted = FALSE
    /\ devTrace = <<>>
    /\ \E options \in SectorOptions :
          hist = [op |-> "new", arg |-> options, res |-> "", bpb |-> NoBpb, fat_type |-> 0]
    /\ NoFiles

\* format_bpb(options)
FormatBpb ==
    /\ hist.op = "new"
    /\ \E debug_assertions \in BOOLEAN :
          \E r \in {format_bpb(hist.arg, debug_assertions)} :
              hist' = [hist EXCEPT !.op = "format_bpb", !.res = r.res, !.bpb = r.bpb,
                                   !.fat_type = r.fat_type]
    /\ UNCHANGED <<gen, dev, bpb, fatType, extFlags, fat, mountFat, diskStatus, bpbStatus,
                   curFlags, fsInfo, diskFsInfo, mounted, devTrace, dirents, data, files>>

SpecSectors == InitSectors /\ [][FormatBpb]_vars

\* The entries a FAT copy of the BPB b holds
FatCapacity(b, fat_type) ==
    (sectors_per_fat(b) * b.bytes_per_sector * 8) \div bits_per_fat_entry(fat_type)

\* The value determine_sectors_per_fat gave for the BPB b, before it was
\* stored
DeterminedSectorsPerFat(b, fat_type) ==
    determine_sectors_per_fat(total_sectors(b), b.reserved_sectors, b.fats, root_dir_sectors(b),
                              b.sectors_per_cluster, fat_type)

Formatted == hist.op = "format_bpb" /\ hist.res = "Ok"

\* C36: for every volume the formatter produces, each FAT copy can hold an
\* entry for every cluster, sectors_per_fat * bytes_per_sector * 8 /
\* bits_per_entry >= total_clusters + 2, and sectors_per_fat fits the BPB
\* field it is stored in (non-zero and below 2^16 on FAT12/FAT16).
C36_FatHoldsEveryCluster ==
    Formatted =>
        /\ FatCapacity(hist.bpb, hist.fat_type) >= total_clusters(hist.bpb) + RESERVED_FAT_ENTRIES
        /\ sectors_per_fat(hist.bpb) = DeterminedSectorsPerFat(hist.bpb, hist.fat_type)
        /\ sectors_per_fat(hist.bpb) > 0
        /\ hist.fat_type # 32 => sectors_per_fat(hist.bpb) < 65536

\* C36, the part that holds: on FAT32 and with sectors of more than 512
\* bytes a FAT copy holds an entry for every cluster, and on every variant
\* sectors_per_fat fits its field
C36_Fat32AndLargeSectors ==
    Formatted =>
        /\ (hist.fat_type = 32 \/ hist.bpb.bytes_per_sector > 512) =>
              FatCapacity(hist.bpb, hist.fat_type)
                  >= total_clusters(hist.bpb) + RESERVED_FAT_ENTRIES
        /\ sectors_per_fat(hist.bpb) = DeterminedSectorsPerFat(hist.bpb, hist.fat_type)
        /\ sectors_per_fat(hist.bpb) > 0
        /\ hist.fat_type # 32 => sectors_per_fat(hist.bpb) < 65536

\* A formatted FAT12 volume whose FAT is short of entries
C36_Fat12TooSmall ==
    /\ Formatted /\ hist.fat_type = 12
    /\ FatCapacity(hist.bpb, 12) < total_clusters(hist.bpb) + RESERVED_FAT_ENTRIES

\* A formatted FAT16 volume whose FAT is short of entries
C36_Fat16TooSmall ==
    /\ Formatted /\ hist.fat_type = 16
    /\ FatCapacity(hist.bpb, 16) < total_clusters(hist.bpb) + RESERVED_FAT_ENTRIES

\* A formatted FAT32 volume
C36_Fat32Formatted == Formatted /\ hist.fat_type = 32

----------------------------------------------------------------------------
\* The cursor of a File handle (file.rs), on SpecFile: one handle on one file
\* of a well-formed volume, moved by read, write, seek and truncate

\* The cluster of the chain of the handle F that holds the byte at offset
\* pos: None when the chain is too short
ClusterHolding(f, F, pos) ==
    LET chain == Chain(f, F.first_cluster)
        k == pos \div ClusterSize + 1
    IN  IF k <= Len(chain) THEN chain[k] ELSE None

CursorOk(f, F) ==
    /\ F.current_cluster = None <=> F.offset = 0
    /\ F.offset > 0 => /\ IsSome(F.current_cluster)
                       /\ F.current_cluster = ClusterHolding(f, F, F.offset - 1)

\* C37: in every state of a File handle reachable by read, write, seek and
\* truncate on a well-formed volume, current_cluster is None exactly when
\* offset = 0, and when offset > 0 current_cluster is the chain cluster
\* holding byte offset - 1; hence truncate does not fail on its assertions
\* (current_cluster present exactly at a non-zero offset) and write does not
\* find an offset inside a cluster without a current cluster.
C37_CursorInvariant ==
    \A h \in DOMAIN files :
        files[h].open =>
            /\ CursorOk(fat, files[h])
            /\ File_truncate(World, files[h]).ok
            /\ files[h].offset % ClusterSize # 0 => IsSome(files[h].current_cluster)

\* The handle has written into the second cluster of its file: the cluster it
\* allocated is the current one
C37_Witness ==
    /\ files[1].open
    /\ files[1].offset = ClusterSize + 1
    /\ files[1].entry.data.size = ClusterSize + 1
    /\ Len(Chain(fat, files[1].first_cluster)) = 2
    /\ files[1].current_cluster = Chain(fat, files[1].first_cluster)[2]

\* The handle is back at offset 0 of a file that has clusters
C37_AtStart ==
    /\ files[1].open
    /\ files[1].offset = 0
    /\ files[1].current_cluster = None
    /\ IsSome(files[1].first_cluster)
    /\ files[1].entry.data.size = 2 * ClusterSize

----------------------------------------------------------------------------
\* The records create_entry writes (dir.rs, find_free_entries and
\* create_entry), on SpecName: names of one to seven fragments are created
\* in a root directory that holds a live entry behind two deleted records

\* The index of the end-of-directory marker in the records ds: the first
\* record whose first byte is 0, Len(ds) + 1 without one
EndMarker(ds) == Least({i \in 1 .. Len(ds) : ds[i][1] = 0} \cup {Len(ds) + 1})

\* The slot i is deleted, or lies at or after the end marker
FreeSlot(ds, i) == i >= EndMarker(ds) \/ ds[i][1] = DIR_ENTRY_DELETED_FLAG

\* The first of the first n consecutive slots that are all free
FirstRun(ds, n) ==
    Least({s \in 1 .. Len(ds) + 1 : \A j \in s .. s + n - 1 : FreeSlot(ds, j)})

\* The slots a step writes
SlotsWritten == {i \in 1 .. Len(dirents) : dirents'[i] # dirents[i]}

\* The root directory after the step
RootAfter == WorldOf(fat', data', dirents')

\* A step that creates the entry of hist.name, and one that succeeds
Creates == hist.phase = "new" /\ hist'.phase = "created"
Created == Creates /\ hist'.ok

C38_ListedBefore ==
    /\ hist.phase = "created" /\ hist.ok /\ hist.n = MaxPrepare
    /\ RecordsOf(hist.name) = 2
    /\ Len(Listing(World, root_dir)) = 2
    /\ Listing(World, root_dir)[2][1] = NameC

----------------------------------------------------------------------------
\* SpecReadOnly: a session of calls that do not change the volume, from the
\* mount of a clean volume to the unmount.  The device is the FAT region, the
\* status byte, the FSInfo sector, the data clusters and the root directory
\* records; hist.before holds them as they were before the mount.

\* The file the session opens: the chain starts at cluster 2
RoEntry(size) == [size |-> size, lo |-> RESERVED_FAT_ENTRIES, hi |-> 0]

\* The root directory of the volume: a file, and a file with a long name
\* after a deleted record
RoDirs ==
    {<<FileRecord(ord("A"), 0)>>,
     <<FileRecord(DIR_ENTRY_DELETED_FLAG, 0),
       LfnRecord(LFN_ENTRY_LAST_FLAG + 1, lfn_checksum(OneLetter(ord("A")))),
       FileRecord(ord("A"), 0)>>}

\* The FSInfo sectors of the volumes: the free count unknown, right or out of
\* range, the reserved area zero or not
RoFsInfoSectors(free) ==
    {[FsInfo_serialize([free |-> fr, next |-> nx]) EXCEPT !.reserved = rs] :
        fr \in {None, free, TotalClusters + 1},
        nx \in {RESERVED_FAT_ENTRIES + 1, TotalClusters + 3},
        rs \in {0, 1}}

RoDevice == [fat |-> fat, status |-> diskStatus, fs_info |-> diskFsInfo,
             data |-> data, dirents |-> dirents]

InitReadOnly ==
    /\ NoDevice
    /\ fatType \in FatTypes
    /\ extFlags = 0
    /\ fat = FatRegion(fatType, LayoutRaws(fatType, <<3, -2>>))
    /\ mountFat = fat
    /\ diskStatus \in {0, 4}
    /\ bpbStatus = 0
    /\ curFlags = 0
    /\ diskFsInfo \in IF fatType = 32
                      THEN RoFsInfoSectors(Cardinality(FreeEntries(fat, fatType, extFlags)))
                      ELSE {[free |-> None, next |-> None]}
    /\ fsInfo = FsInfoDefault
    /\ mounted = FALSE
    /\ devTrace = <<>>
    /\ dirents \in RoDirs
    /\ data = [c \in Clusters |-> [i \in 1 .. ClusterSize |-> c]]
    /\ files = <<ClosedFile>>
    /\ hist = [op |-> "new", res |-> None, before |-> RoDevice, counted |-> FALSE, called |-> {},
               it |-> [pos |-> 0, ended |-> FALSE]]

\* FileSystem::new on the volume
RoMount ==
    /\ ~mounted
    /\ hist.op = "new"
    /\ bpbStatus' = diskStatus
    /\ curFlags' = FlagsEncode(FlagsDecode(diskStatus))
    /\ fsInfo' = FileSystem_new_fs_info(fatType, diskFsInfo, diskStatus)
    /\ mounted' = TRUE
    /\ hist' = [hist EXCEPT !.op = "mount"]
    /\ UNCHANGED <<gen, dev, bpb, fatType, extFlags, fat, mountFat, diskStatus, diskFsInfo,
                   devTrace, dirents, data, files>>

\* FileSystem::stats
RoStats ==
    /\ mounted
    /\ \E r \in {FileSystem_stats(fat, fsInfo, fatType, extFlags)} :
           /\ fsInfo' = r.fi
           /\ hist' = [hist EXCEPT !.op = "stats", !.called = @ \cup {"stats"}, !.res = r.free,
                                   !.counted = @ \/ ~IsSome(fsInfo.free)]
    /\ UNCHANGED <<gen, dev, bpb, fatType, extFlags, fat, mountFat, diskStatus, bpbStatus,
                   curFlags, diskFsInfo, mounted, devTrace, dirents, data, files>>

\* FileSystem::read_status_flags
RoReadStatusFlags ==
    /\ mounted
    /\ hist' = [hist EXCEPT !.op = "read_status_flags",
                            !.called = @ \cup {"read_status_flags"},
                            !.res = FlagsEncode(read_status_flags(fat, bpbStatus, fatType,
                                                                  extFlags))]
    /\ UNCHANGED <<gen, dev, bpb, fatType, extFlags, fat, mountFat, diskStatus, bpbStatus,
                   curFlags, fsInfo, diskFsInfo, mounted, devTrace, dirents, data, files>>

\* DirIter::next on the root directory, and Dir::iter after its end
RoIterNext ==
    /\ mounted
    /\ \E r \in {read_dir_entry(dirents, IF hist.it.ended THEN 0 ELSE hist.it.pos)} :
           hist' = [hist EXCEPT !.op = "iter", !.called = @ \cup {"iter"}, !.res = None,
                                !.it = [pos |-> r.offset, ended |-> ~r.some]]
    /\ UNCHANGED <<gen, dev, bpb, fatType, extFlags, fat, mountFat, diskStatus, bpbStatus,
                   curFlags, fsInfo, diskFsInfo, mounted, devTrace, dirents, data, files>>

\* Dir::open_file: DirEntry::to_file on the entry found
RoOpen(size) ==
    /\ mounted
    /\ ~files[1].open
    /\ files' = <<to_file(RoEntry(size), fatType)>>
    /\ hist' = [hist EXCEPT !.op = "open_file", !.called = @ \cup {"open_file"}, !.res = None]
    /\ UNCHANGED <<gen, dev, bpb, fatType, extFlags, fat, mountFat, diskStatus, bpbStatus,
                   curFlags, fsInfo, diskFsInfo, mounted, devTrace, dirents, data>>

\* File::read with update_accessed_date disabled
RoRead(len) ==
    /\ mounted
    /\ files[1].open
    /\ \E r \in {File_read(World, files[1], len, FALSE)} :
           /\ files' = <<r.F>>
           /\ hist' = [hist EXCEPT !.op = "read", !.called = @ \cup {"read"},
                                   !.res = Len(r.bytes)]
    /\ UNCHANGED <<gen, dev, bpb, fatType, extFlags, fat, mountFat, diskStatus, bpbStatus,
                   curFlags, fsInfo, diskFsInfo, mounted, devTrace, dirents, data>>

\* Drop for File: flush, and the handle is gone
RoDrop ==
    /\ mounted
    /\ files[1].open
    /\ \E r \in {File_flush(World, files[1], Len(dirents))} :
           /\ CommitWorld(r.w)
           /\ files' = <<ClosedFile>>
           /\ hist' = [hist EXCEPT !.op = "drop", !.called = @ \cup {"drop"}, !.res = None]
    /\ UNCHANGED fileFrame

\* FileSystem::unmount: flush_fs_info, then set_dirty_flag(false)
RoUnmount ==
    /\ mounted
    /\ ~files[1].open
    /\ diskFsInfo' = flush_fs_info(diskFsInfo, fsInfo, fatType)
    /\ Commit(set_dirty_flag(Dev, FALSE))
    /\ fsInfo' = FsInfoDefault
    /\ mounted' = FALSE
    /\ hist' = [hist EXCEPT !.op = "unmount", !.res = None]
    /\ UNCHANGED <<gen, dev, bpb, fatType, extFlags, mountFat, bpbStatus, dirents, data, files>>

NextReadOnly ==
    \/ RoMount
    \/ RoStats
    \/ RoReadStatusFlags
    \/ RoIterNext
    \/ \E size \in {1, ClusterSize + 1} : RoOpen(size)
    \/ \E len \in {1, ClusterSize + 1} : RoRead(len)
    \/ RoDrop
    \/ RoUnmount

SpecReadOnly == InitReadOnly /\ [][NextReadOnly]_vars

\* The session is over
RoUnmounted == hist.op = "unmount"

\* The FSInfo sector unmount writes after stats() has counted the free
\* clusters of the volume mounted from sector
RoCountedSector(sector) ==
    FsInfo_serialize(
        [free |-> Cardinality(FreeEntries(fat, fatType, extFlags)),
         next |-> FileSystem_new_fs_info(fatType, sector, 0).next])

\* C39 as stated: after a session of non-mutating calls on a clean volume
\* (directory iteration, open_file, reads with update_accessed_date disabled,
\* stats(), read_status_flags()) and the unmount, every byte of the device
\* equals its value before the mount, on FAT12, FAT16 and FAT32.
C39_ReadOnlySessionLeavesDevice ==
    RoUnmounted => RoDevice = hist.before

\* C39 (amended): after such a session every byte of the device outside the
\* FSInfo sector equals its value before the mount; the FSInfo sector is
\* unchanged on FAT12 and FAT16, and on FAT32 unless stats() was called while
\* the free-cluster count was unknown (0xFFFFFFFF or above total_clusters in
\* the sector), and is then the sector serialized from the counted free
\* clusters and the next-free hint as validated at mount.
C39_ReadOnlySessionWritesFsInfoOnly ==
    RoUnmounted =>
        /\ [RoDevice EXCEPT !.fs_info = hist.before.fs_info] = hist.before
        /\ IF fatType = 32 /\ hist.counted
           THEN diskFsInfo = RoCountedSector(hist.before.fs_info)
           ELSE diskFsInfo = hist.before.fs_info

\* A FAT32 session with reads, a directory listing and stats() on a volume
\* whose FSInfo sector gave the free count: nothing is written
C39_Witness ==
    /\ RoUnmounted
    /\ fatType = 32
    /\ IsSome(hist.before.fs_info.free)
    /\ hist.before.fs_info.free <= TotalClusters
    /\ hist.before.fs_info.reserved = 1
    /\ hist.it.ended
    /\ hist.called = {"stats", "read_status_flags", "iter", "open_file", "read", "drop"}
    /\ RoDevice = hist.before

\* A FAT32 session in which stats() counted the free clusters: unmount has
\* rewritten the FSInfo sector
C39_FsInfoRewritten ==
    /\ RoUnmounted
    /\ fatType = 32
    /\ hist.counted
    /\ hist.before.fs_info.free = None
    /\ diskFsInfo # hist.before.fs_info

----------------------------------------------------------------------------
\* SpecScan: the streaming scans of the FAT, find_free and count_free, on
\* volumes whose cluster entries hold arbitrary words (free, a cluster
\* number with bits in every nibble, end of chain; on FAT32 with the four
\* reserved bits clear or set).

InitScan ==
    /\ NoDevice
    /\ fatType \in FatTypes
    /\ extFlags = 0
    /\ \E raws \in [1 .. TotalClusters -> RawEntries(fatType)] :
          fat = FatRegion(fatType, <<Raw(MediaRaw(fatType)), Raw(EocRaw(fatType))>> \o raws)
    /\ mountFat = fat
    /\ diskStatus = 0
    /\ bpbStatus = 0
    /\ curFlags = 0
    /\ diskFsInfo = [free |-> None, next |-> None]
    /\ fsInfo = FsInfoDefault
    /\ mounted = TRUE
    /\ devTrace = <<>>
    /\ hist = [op |-> "new", start |-> None, end |-> None, res |-> None]
    /\ NoFiles

\* find_free_cluster(fat, fat_type, start_cluster, end_cluster)
ScanFindFree(start_cluster, end_cluster) ==
    /\ hist' = [op |-> "find_free", start |-> start_cluster, end |-> end_cluster,
                res |-> find_free_cluster(fat, fat_slice(fatType, extFlags), fatType,
                                          start_cluster, end_cluster)]
    /\ UNCHANGED <<gen, dev, bpb, fatType, extFlags, fat, mountFat, diskStatus, bpbStatus,
                   curFlags, fsInfo, diskFsInfo, mounted, devTrace, dirents, data, files>>

\* count_free_clusters(fat, fat_type, total_clusters)
ScanCountFree ==
    /\ hist' = [op |-> "count_free", start |-> RESERVED_FAT_ENTRIES,
                end |-> TotalClusters + RESERVED_FAT_ENTRIES,
                res |-> count_free_clusters(fat, fat_slice(fatType, extFlags), fatType,
                                            TotalClusters)]
    /\ UNCHANGED <<gen, dev, bpb, fatType, extFlags, fat, mountFat, diskStatus, bpbStatus,
                   curFlags, fsInfo, diskFsInfo, mounted, devTrace, dirents, data, files>>

\* The ranges alloc_cluster searches: start_cluster < end_cluster
NextScan ==
    \/ \E start_cluster \in Clusters :
       \E end_cluster \in start_cluster + 1 .. TotalClusters + RESERVED_FAT_ENTRIES :
           ScanFindFree(start_cluster, end_cluster)
    \/ ScanCountFree

SpecScan == InitScan /\ [][NextScan]_vars

\* The clusters of [start, end) whose entry reads as Free
ReadFree(start_cluster, end_cluster) ==
    {c \in start_cluster .. end_cluster - 1 :
        read_fat(fat, fat_slice(fatType, extFlags), fatType, c) = Free}

\* The smallest cluster of a set, None for the empty set
Smallest(S) == IF S = {} THEN None ELSE CHOOSE c \in S : \A d \in S : c <= d

\* find_free agrees with the per-entry reads
FindFreeAgrees ==
    hist.op = "find_free" => hist.res = Smallest(ReadFree(hist.start, hist.end))

\* An entry of the volume whose FAT32 word has reserved bits set and the 28
\* cluster bits zero
ReservedBitsOnFree ==
    /\ fatType = 32
    /\ \E c \in Clusters :
          /\ read_fat(fat, fat_slice(fatType, extFlags), fatType, c) = Free
          /\ stream_u32(fat, fat_slice(fatType, extFlags), c * 4) # <<0, 0, 0, 0>>

\* C40: on FAT12, FAT16 and FAT32 and every FAT content, find_free(start,
\* end) returns the smallest c in [start, end) whose entry reads as Free and
\* an error if there is none, for both parities of start on FAT12, and
\* count_free returns the number of c in [2, total_clusters + 2) whose entry
\* reads as Free.
C40_ScansAgreeWithReads ==
    /\ FindFreeAgrees
    /\ hist.op = "count_free" => hist.res = Cardinality(ReadFree(hist.start, hist.end))

\* C40, the part that holds: find_free agrees with the per-entry reads on all
\* three variants, and count_free agrees on FAT12 and FAT16 and on the FAT32
\* volumes whose free entries are the word 0; on the other FAT32 volumes
\* count_free counts the entries whose whole 32-bit word is 0.
C40_ScansAgreeButFat32Count ==
    /\ FindFreeAgrees
    /\ (hist.op = "count_free" /\ ~ReservedBitsOnFree) =>
           hist.res = Cardinality(ReadFree(hist.start, hist.end))
    /\ (hist.op = "count_free" /\ fatType = 32) =>
           hist.res = Cardinality({c \in Clusters :
                          stream_u32(fat, fat_slice(fatType, extFlags), c * 4) = <<0, 0, 0, 0>>})

\* count_free on a FAT32 volume reports fewer free clusters than read as Free
C40_Fat32CountShort ==
    /\ hist.op = "count_free"
    /\ fatType = 32
    /\ hist.res < Cardinality(ReadFree(hist.start, hist.end))

\* find_free on FAT12 from an odd start passes a taken entry and finds the
\* next cluster
C40_Fat12OddStart ==
    /\ hist.op = "find_free"
    /\ fatType = 12
    /\ hist.start % 2 = 1
    /\ hist.res = hist.start + 1
    /\ hist.res = Smallest(ReadFree(hist.start, hist.end))

\* find_free on FAT32 finds an entry whose reserved bits are set
C40_Fat32FindsReserved ==
    /\ hist.op = "find_free"
    /\ ReservedBitsOnFree
    /\ IsSome(hist.res)
    /\ stream_u32(fat, fat_slice(fatType, extFlags), hist.res * 4) # <<0, 0, 0, 0>>

====
